---- MODULE Spec2Model ----
(***************************************************************************)
(* Model of fieldwise's Form class (src/src/Form.ts) and of the handlers   *)
(* that src/src/changeHandlers.ts wires on it: the event hub with its      *)
(* queue-and-replay, the field store with its per-field subscribers, and   *)
(* the validation coordinator (runValidation).                             *)
(*                                                                         *)
(* One TLA+ step is one call made by the host program, one render or       *)
(* effect of the component, one timer firing, one promise of an            *)
(* asynchronous validator settling, or one microtask.  A call runs to      *)
(* completion, nested handler calls included.  turnOpen tells that the     *)
(* host's synchronous code is still running: timers and microtasks wait    *)
(* for it to end, and a task waits for the microtasks.                     *)
(***************************************************************************)
EXTENDS Integers, Sequences, FiniteSets, TLC

----------------------------------------------------------------------------
(* Bounds of the model *)

MaxQueue == 2
MaxTimers == 1
MaxRuns == 2
MaxValidators == 2
MaxHandlers == 2
MaxMicrotasks == 2
MaxPlugins == 2

----------------------------------------------------------------------------
(* Data *)

Keys == {"a", "b"}
Vals == {0, 1}
Msgs == {"m1", "m2"}
Null == "null"
Undefined == [tag |-> "undefined"]
NullResult == [tag |-> "null"]

UserHandlers == {"h1", "h2"}

\* Handlers of the host program that call back into the container while
\* they are being invoked for an event:
\*   again    (...args) => { if (!done) { done = true; form.emit(event, ...args) } }
\*   adder    () => { form.on(event, h2) }
\*   remover  () => { unsubscribeH2() }   with unsubscribeH2 = form.on(event, h2)
ReentrantHandlers == {"again", "adder", "remover"}
FieldCallbacks == {"s1"}
FrameCallbacks == {"s1", "s2"}

Events ==
  {"change", "changeMany", "changeSome", "touch", "touchMany", "touchSome",
   "reset", "errors", "validate", "validated", "validationStart"}

\* An object whose key order matters (a values record) is the sequence of
\* its entries, <<key, value>>, in insertion order.
RECURSIVE ObjectKeys(_)
ObjectKeys(obj) ==
  IF obj = <<>> THEN <<>> ELSE <<Head(obj)[1]>> \o ObjectKeys(Tail(obj))

\* obj[key]
Get(obj, key) ==
  LET i == CHOOSE j \in 1..Len(obj): obj[j][1] = key IN obj[i][2]

\* the record the container is constructed with: { a: 0, b: 0 }
initialValues == << <<"a", 0>>, <<"b", 0>> >>

\* An error mapping (Errors<T>) is a function from a subset of Keys to Msgs.
EmptyErrors == [k \in {} |-> Null]
ErrorsOf(k, m) == [x \in {k} |-> m]
Mapping(m) == [tag |-> "map", m |-> m]

\* Object.assign(target, source): the source's entries overwrite the target's
ObjectAssign(target, source) ==
  [k \in (DOMAIN target) \cup (DOMAIN source) |->
     IF k \in DOMAIN source THEN source[k] ELSE target[k]]

----------------------------------------------------------------------------
(* Validators that a plugin may register.  A validator is a pure function  *)
(* of its arguments; whether it answers through a promise is part of it.   *)
(*   req        (values) => values[key] ? null : {key: msg}                *)
(*   empty      (values) => ({})                                           *)
(*   skipIfSync (values, syncErrors) => syncErrors has keys ? null         *)
(*                                                         : {key: msg}    *)
(*   addIfSync  (values, syncErrors) => syncErrors has keys ? {key: msg}   *)
(*                                                         : null          *)
(*   fault      (values) => { throw .. }, or a promise that rejects        *)

Validator(async, arity, beh, key, msg) ==
  [async |-> async, arity |-> arity, beh |-> beh, key |-> key, msg |-> msg]

ValidatorKinds ==
  { Validator(FALSE, 1, "req", "a", "m1"),
    Validator(FALSE, 1, "req", "a", "m2"),
    Validator(FALSE, 1, "empty", "a", "m1"),
    Validator(TRUE, 1, "req", "a", "m1"),
    Validator(TRUE, 1, "req", "b", "m1"),
    Validator(FALSE, 2, "skipIfSync", "b", "m2") }

\* the outcome of a validator call that throws, or of a promise that rejects
Fault == [tag |-> "fault"]

HasKeys(second) == second # Undefined /\ DOMAIN second # {}

\* what the validator function returns (or resolves to) for its arguments
ValidatorResult(v, values, second) ==
  CASE v.beh = "req" ->
         IF values[v.key] = 0 THEN Mapping(ErrorsOf(v.key, v.msg)) ELSE NullResult
    [] v.beh = "empty" -> Mapping(EmptyErrors)
    [] v.beh = "skipIfSync" ->
         IF HasKeys(second) THEN NullResult ELSE Mapping(ErrorsOf(v.key, v.msg))
    [] v.beh = "addIfSync" ->
         IF HasKeys(second) THEN Mapping(ErrorsOf(v.key, v.msg)) ELSE NullResult
    [] v.beh = "fault" -> Fault

----------------------------------------------------------------------------
(* State *)

VARIABLES
  fields,           \* Form.fields: key -> [value, error, isTouched]
  fieldOrder,       \* Object.keys(Form.fields): the keys in insertion order
  fieldSubscribers, \* Form.fieldSubscribers: key -> callbacks, in insertion order
  eventHandlers,    \* Form.eventHandlers: event -> handlers, in insertion order
  eventQueue,       \* Form.eventQueue: event -> queued argument tuples
  validators,       \* Form.validators
  isValidating,     \* Form.isValidating
  runs,             \* runValidation calls suspended at `await Promise.all`
  timers,           \* callbacks scheduled by emitLater's setTimeout(.., 0)
  microtasks,       \* callbacks scheduled by queueMicrotask, oldest first
  turnOpen,         \* the host's synchronous code is still running
  installed,        \* the plugins applied so far
  spent,            \* host handlers whose `done` flag is set
  unsubscribers,    \* unsubscribe functions returned by on() that the host
                    \* program holds, each with whether it was called
  fieldUnsubscribers, \* the same for the functions returned by subscribeField()
  deferred,         \* history: events passed to emitLater in the open turn
  lateOnce,         \* history: a once('validated', ..) that followed an
                    \* emitLater('validate') in one turn, and whether it was served
  observer,         \* the component mounted through useSlice: its React
                    \* state and the flags of its effect's closure
  runlog,           \* history: one record per runValidation call
  trace             \* history: what the last step did, in order

vars ==
  <<fields, fieldOrder, fieldSubscribers, eventHandlers, eventQueue, validators,
    isValidating, runs, timers, microtasks, turnOpen, installed, spent,
    unsubscribers, fieldUnsubscribers,
    deferred, lateOnce, observer, runlog, trace>>

----------------------------------------------------------------------------
(* The mutable part of the container, passed through the operators that    *)
(* model the methods: each takes the state before and yields the state     *)
(* after the call, nested calls included.                                  *)

St ==
  [fields |-> fields, fieldOrder |-> fieldOrder,
   fieldSubscribers |-> fieldSubscribers,
   eventHandlers |-> eventHandlers, eventQueue |-> eventQueue,
   isValidating |-> isValidating, runs |-> runs, timers |-> timers,
   microtasks |-> microtasks, spent |-> spent, unsubscribers |-> unsubscribers,
   fieldUnsubscribers |-> fieldUnsubscribers,
   deferred |-> deferred, observer |-> observer, runlog |-> runlog,
   thrown |-> FALSE, trace |-> <<>>]

\* the first entry of a step's trace names the call that the step is
Op(name, args) == [t |-> "op", name |-> name, args |-> args]
Begin(name, args) == [St EXCEPT !.trace = <<Op(name, args)>>]
IsOp(tr, name, args) == tr # <<>> /\ tr[1].name = name /\ tr[1].args = args

\* A deleted Set entry keeps its slot until no iteration is in progress
\* (ECMAScript Set: the entry is replaced by ~empty~), so an iteration that
\* is under way neither skips nor repeats a live entry.
Tomb == [kind |-> "tomb", h |-> ""]
OnEntry(h) == [kind |-> "on", h |-> h]
OnceEntry(h) == [kind |-> "once", h |-> h]
Builtin(h) == [kind |-> "builtin", h |-> h]

Live(entries) == SelectSeq(entries, LAMBDA x: x # Tomb)
Size(entries) == Len(Live(entries))

\* Set.prototype.delete(x): the entry of x, if there is one, becomes empty
RECURSIVE delete(_, _)
delete(entries, x) ==
  IF entries = <<>> THEN <<>>
  ELSE <<IF Head(entries) = x THEN Tomb ELSE Head(entries)>>
         \o delete(Tail(entries), x)

RECURSIVE clear(_)
clear(entries) ==
  IF entries = <<>> THEN <<>> ELSE <<Tomb>> \o clear(Tail(entries))

Log(st, entry) == [st EXCEPT !.trace = Append(@, entry)]

\* Object.keys(values).reduce(..): one fresh field per key; the keys of the
\* result are in the order of ObjectKeys(values)
valuesToFields(values) ==
  [k \in {values[i][1] : i \in 1..Len(values)} |->
     [value |-> Get(values, k), error |-> Null, isTouched |-> FALSE]]

getValues(st) == [k \in DOMAIN st.fields |-> st.fields[k].value]

\* Object.entries(this.fields) with each field's value
RECURSIVE valueEntries(_, _)
valueEntries(fs, keys) ==
  IF keys = <<>> THEN <<>>
  ELSE << <<Head(keys), fs[Head(keys)].value>> >> \o valueEntries(fs, Tail(keys))

\* a field callback of the host program: it observes the field it is given
RECURSIVE notifyFrom(_, _, _)
\* keys.reduce((acc, key) => { acc[key] = this.fields[key]; .. }): a new
\* object whose entries are the container's own Field objects
Named(names) == {names[i]: i \in 1..Len(names)}

getSlice(st, keys) == [k \in Named(keys) |-> st.fields[k]]

\* No component has rendered.  Of a component: the hook it calls, phase
\* (none, rendered, unmounted), mounted (its effect has run to its end and
\* returned its cleanup, which has not run), tornDown (the cleanup of the
\* last run of the effect has run and the effect has not run since),
\* effectPending (a render has asked for the effect and React has not run it
\* yet), the values of its two useState and of useMemo's isTouched, shared
\* (the keys whose Field object in `fields` is the container's own one), and
\* the two flags of the closure of the effect in place.
NoObserver ==
  [hook |-> "none", phase |-> "none", mounted |-> FALSE, tornDown |-> FALSE,
   effectPending |-> FALSE,
   keys |-> <<>>, fields |-> <<>>, shared |-> {}, isValidating |-> FALSE,
   isTouched |-> FALSE,
   pendingUpdate |-> FALSE, pendingValidationUpdate |-> FALSE]

\* What the slice held by the component shows: setValue, touch and setError
\* change the container's Field objects in place, so an entry that is still
\* the container's object shows what the container has.
Held(st) ==
  [k \in DOMAIN st.observer.fields |->
     IF k \in st.observer.shared THEN st.fields[k] ELSE st.observer.fields[k]]

scheduleUpdateEveryTime(st) ==
  [st EXCEPT !.observer.pendingUpdate = TRUE,
             !.microtasks = Append(@, [update |-> "setFields", stale |-> FALSE])]

\* useSlice's scheduleUpdate: one microtask per batch of notifications.  A
\* queued microtask is stale when its closure is no longer the one of the
\* effect in place.
scheduleUpdate(st) ==
  IF ~st.observer.pendingUpdate
    THEN [st EXCEPT !.observer.pendingUpdate = TRUE,
                    !.microtasks = Append(@, [update |-> "setFields",
                                              stale |-> FALSE])]
    ELSE st

\* useSlice's scheduleValidationUpdate: the microtask keeps the argument of
\* the call that scheduled it
scheduleValidationUpdate(st, flag) ==
  IF ~st.observer.pendingValidationUpdate
    THEN [st EXCEPT !.observer.pendingValidationUpdate = TRUE,
                    !.microtasks = Append(@, [update |-> "setIsValidating",
                                              isValidating |-> flag,
                                              stale |-> FALSE])]
    ELSE st

\* callback(field): the host's callbacks only record, the observer's is
\* scheduleUpdate
fieldCallback(st, s) == IF s = "scheduleUpdate" THEN scheduleUpdate(st) ELSE st

notifyFrom(st, key, i) ==
  IF i > Len(st.fieldSubscribers[key]) THEN st
  ELSE LET s == st.fieldSubscribers[key][i]
           st1 == IF s = Tomb THEN st
                  \* callback(field), and what the callback finds in the
                  \* container when it is called
                  ELSE fieldCallback(
                         Log(Log(st, [t |-> "notify", s |-> s.h, k |-> key,
                                      field |-> st.fields[key]]),
                             [t |-> "seen", s |-> s.h, k |-> key,
                              fields |-> st.fields]), s.h)
       IN notifyFrom(st1, key, i + 1)

notifyEveryField(st, key) == notifyFrom(notifyFrom(st, "a", 1), "b", 1)

notify(st, key) == notifyFrom(st, key, 1)

setValueKeepError(st, key, value) ==
  IF key \in DOMAIN st.fields /\ st.fields[key].value # value
    THEN notify([st EXCEPT !.fields[key].value = value,
                           !.fields[key].isTouched = TRUE], key)
    ELSE st

setValueAlways(st, key, value) ==
  IF key \in DOMAIN st.fields
    THEN notify([st EXCEPT !.fields[key] =
                   [value |-> value, error |-> Null, isTouched |-> TRUE]], key)
    ELSE st

setValueAnyKey(st, key, value) ==
  IF key \in DOMAIN st.fields
    THEN IF st.fields[key].value # value
           THEN notify([st EXCEPT !.fields[key] =
                          [value |-> value, error |-> Null, isTouched |-> TRUE]], key)
           ELSE st
    ELSE [st EXCEPT !.fields =
            [k \in DOMAIN st.fields \cup {key} |->
               IF k = key THEN [value |-> value, error |-> Null, isTouched |-> TRUE]
               ELSE st.fields[k]]]

setValue(st, key, value) ==
  IF key \in DOMAIN st.fields /\ st.fields[key].value # value
    THEN notify([st EXCEPT !.fields[key] =
                   [value |-> value, error |-> Null, isTouched |-> TRUE]], key)
    ELSE st

\* newValues is an object literal: its keys in insertion order, as pairs
RECURSIVE assignEach(_, _)
assignEach(fs, newValues) ==
  IF newValues = <<>> THEN fs
  ELSE LET key == Head(newValues)[1]
           value == Head(newValues)[2]
       IN assignEach(
            IF key \in DOMAIN fs /\ fs[key].value # value
              THEN [fs EXCEPT ![key] =
                      [value |-> value, error |-> Null, isTouched |-> TRUE]]
              ELSE fs,
            Tail(newValues))

RECURSIVE notifyChanged(_, _, _)
notifyChanged(st, before, newValues) ==
  IF newValues = <<>> THEN st
  ELSE LET key == Head(newValues)[1]
       IN notifyChanged(
            IF key \in DOMAIN before /\ before[key].value # Head(newValues)[2]
              THEN notify(st, key) ELSE st,
            before, Tail(newValues))

setValuesThenNotify(st, newValues) ==
  notifyChanged([st EXCEPT !.fields = assignEach(@, newValues)],
                st.fields, newValues)

RECURSIVE setValues(_, _)
setValues(st, newValues) ==
  IF newValues = <<>> THEN st
  ELSE setValues(setValue(st, Head(newValues)[1], Head(newValues)[2]),
                 Tail(newValues))

touchAlwaysNotifies(st, key) ==
  notify([st EXCEPT !.fields[key].isTouched = TRUE], key)

touch(st, key) ==
  IF ~st.fields[key].isTouched
    THEN notify([st EXCEPT !.fields[key].isTouched = TRUE], key)
    ELSE st

\* names.forEach((name) => form.touch(name))
RECURSIVE touchEach(_, _)
touchEach(st, names) ==
  IF names = <<>> THEN st ELSE touchEach(touch(st, Head(names)), Tail(names))

RECURSIVE notifyAll(_, _)
notifyAll(st, keys) ==
  IF keys = <<>> THEN st ELSE notifyAll(notify(st, Head(keys)), Tail(keys))

resetKeepUnchanged(st, snapshot) ==
  notifyAll([st EXCEPT !.fields =
               [k \in DOMAIN valuesToFields(snapshot) |->
                  IF k \in DOMAIN st.fields /\ st.fields[k].value = Get(snapshot, k)
                    THEN st.fields[k] ELSE valuesToFields(snapshot)[k]],
                     !.fieldOrder = ObjectKeys(snapshot)],
            ObjectKeys(snapshot))

RECURSIVE resetFieldByField(_, _, _)
resetFieldByField(st, snapshot, keys) ==
  IF keys = <<>> THEN st
  ELSE resetFieldByField(
         notify([st EXCEPT !.fields[Head(keys)] =
                   valuesToFields(snapshot)[Head(keys)]], Head(keys)),
         snapshot, Tail(keys))

resetOneAtATime(st, snapshot) ==
  resetFieldByField([st EXCEPT !.fieldOrder = ObjectKeys(snapshot)],
                    snapshot, ObjectKeys(snapshot))

\* this.fields = this.valuesToFields(snapshot);
\* Object.entries(this.fields).forEach(([name, field]) => notify(name, field))
\* The Field objects of before are no longer the container's: a slice that
\* holds them keeps them as they are now.
reset(st, snapshot) ==
  LET st1 == [st EXCEPT !.observer.fields = Held(st),
                        !.observer.shared = {},
                        !.fields = valuesToFields(snapshot),
                        !.fieldOrder = ObjectKeys(snapshot)]
  IN notifyAll(st1, st1.fieldOrder)

setErrorAlways(st, key, error) ==
  notify([st EXCEPT !.fields[key].error = error], key)

setError(st, key, error) ==
  IF st.fields[key].error # error
    THEN notify([st EXCEPT !.fields[key].error = error], key)
    ELSE st

\* newErrors[key] || null: a missing key gives undefined, and undefined and
\* the empty string are falsy
ErrorOrNull(newErrors, key) ==
  IF key \in DOMAIN newErrors /\ newErrors[key] # "" THEN newErrors[key] ELSE Null

\* Object.keys(this.fields).forEach((key) => this.setError(key, ..))
RECURSIVE setErrorEach(_, _, _)
setErrorEach(st, newErrors, keys) ==
  IF keys = <<>> THEN st
  ELSE setErrorEach(setError(st, Head(keys), ErrorOrNull(newErrors, Head(keys))),
                    newErrors, Tail(keys))

setErrors(st, newErrors) == setErrorEach(st, newErrors, st.fieldOrder)

\* validator(values): runValidation passes the values snapshot and nothing else
callValidator(v, values) == [v |-> v, second |-> Undefined,
                             res |-> ValidatorResult(v, values, Undefined)]

\* for (const result of results) if (result) Object.assign(errors, result)
RECURSIVE mergeResults(_, _)
mergeResults(errors, results) ==
  IF results = <<>> THEN errors
  ELSE mergeResults(
         IF Head(results) # NullResult THEN ObjectAssign(errors, Head(results).m)
                                       ELSE errors,
         Tail(results))

errorsOrNullAlwaysMapping(errors) == Mapping(errors)

\* Object.keys(errors).length > 0 ? errors : null
errorsOrNull(errors) == IF DOMAIN errors # {} THEN Mapping(errors) ELSE NullResult

RECURSIVE doEmit(_, _, _)
RECURSIVE forEachHandler(_, _, _, _)
RECURSIVE invoke(_, _, _, _, _)
RECURSIVE runValidation(_)
RECURSIVE on(_, _, _)

unsubscribeClears(st, event, h) ==
  [st EXCEPT !.eventHandlers[event] = clear(@)]

\* the function returned by on(event, h): handlers.delete(handler)
unsubscribe(st, event, h) ==
  [st EXCEPT !.eventHandlers[event] = delete(@, OnEntry(h))]

\* a handler of the host program: it records what it was called with, and a
\* re-entrant one then calls back into the container
userHandler(st, h, event, args) ==
  LET st1 == Log(st, [t |-> "call", h |-> h, e |-> event, args |-> args])
  IN CASE h = "again" ->
            IF h \in st1.spent THEN st1
            ELSE doEmit([st1 EXCEPT !.spent = @ \cup {h}], event, args)
       [] h = "adder" -> on(st1, event, "h2")
       [] h = "remover" -> unsubscribe(st1, event, "h2")
       \* a handler that throws: the exception unwinds the calls in progress
       [] h = "thrower" ->
            [Log(st1, [t |-> "throw", h |-> h, e |-> event]) EXCEPT !.thrown = TRUE]
       [] OTHER -> st1

resetHandlerKeepsValues(st, args) ==
  reset(st, IF args = <<>> THEN valueEntries(st.fields, st.fieldOrder)
            ELSE args[1])

\* (values) => form.reset(values || form.initialValues)
resetHandler(st, args) ==
  reset(st, IF args = <<>> THEN initialValues ELSE args[1])

\* the handler that validateZodSchema(schema) subscribes to 'validate', for
\* a schema that wants a non-zero a: it parses the values of now and emits
\* 'validated' with the one argument { values, errors }
validateZodSchema(st) ==
  LET values == getValues(st)
      errors == IF values["a"] = 0 THEN ErrorsOf("a", "m1") ELSE Null
  IN doEmit(st, "validated", <<[values |-> values, errors |-> errors]>>)

invoke(st, event, i, entry, args) ==
  CASE entry.kind = "on" -> userHandler(st, entry.h, event, args)
    [] entry.kind = "once" ->
         \* once's wrapper: handler(...args); then delete(wrapper)
         LET st1 == userHandler(st, entry.h, event, args)
         IN IF st1.thrown THEN st1
            ELSE [st1 EXCEPT !.eventHandlers[event][i] = Tomb]
    [] entry.kind = "builtin" ->
         CASE entry.h = "runValidation" -> runValidation(st)
           [] entry.h = "setValue" -> setValue(st, args[1], args[2])
           [] entry.h = "setValues" -> setValues(st, args[1])
           [] entry.h = "touch" -> touch(st, args[1])
           [] entry.h = "touchEach" -> touchEach(st, args[1])
           [] entry.h = "setErrors" -> setErrors(st, args[1])
           [] entry.h = "reset" -> resetHandler(st, args)
           [] entry.h = "validateZodSchema" -> validateZodSchema(st)
           \* () => scheduleValidationUpdate(true), and the same with false
           [] entry.h = "onValidationStart" -> scheduleValidationUpdate(st, TRUE)
           [] entry.h = "onValidated" -> scheduleValidationUpdate(st, FALSE)

forEachHandlerCatches(st, event, args, i) ==
  IF i > Len(st.eventHandlers[event]) THEN st
  ELSE LET entry == st.eventHandlers[event][i]
           st1 == IF entry = Tomb THEN st ELSE invoke(st, event, i, entry, args)
       IN forEachHandler([st1 EXCEPT !.thrown = FALSE], event, args, i + 1)

\* handlers.forEach((handler) => handler(...args)); nothing catches what a
\* handler throws
forEachHandler(st, event, args, i) ==
  IF i > Len(st.eventHandlers[event]) \/ st.thrown THEN st
  ELSE LET entry == st.eventHandlers[event][i]
           st1 == IF entry = Tomb THEN st ELSE invoke(st, event, i, entry, args)
       IN forEachHandler(st1, event, args, i + 1)

doEmitSkipFirst(st, event, args) ==
  LET st0 == Log(st, [t |-> "emit", e |-> event, args |-> args])
  IN IF Size(st0.eventHandlers[event]) = 0
       THEN [st0 EXCEPT !.eventQueue[event] = Append(@, args)]
       ELSE forEachHandler(st0, event, args,
                           IF Size(st0.eventHandlers[event]) > 1 THEN 2 ELSE 1)

doEmit(st, event, args) ==
  LET st0 == Log(st, [t |-> "emit", e |-> event, args |-> args])
  IN IF Size(st0.eventHandlers[event]) = 0
       THEN [st0 EXCEPT !.eventQueue[event] = Append(@, args)]
       ELSE forEachHandler(st0, event, args, 1)

RECURSIVE drainQueue(_, _)
drainQueue(st, event) ==
  IF ~st.thrown /\ Len(st.eventQueue[event]) > 0
       /\ Size(st.eventHandlers[event]) > 0
    THEN LET args == Head(st.eventQueue[event])
             st1 == [st EXCEPT !.eventQueue[event] = Tail(@)]
         IN drainQueue(forEachHandler(st1, event, args, 1), event)
    ELSE st

RECURSIVE Reverse(_)
Reverse(q) == IF q = <<>> THEN <<>> ELSE Reverse(Tail(q)) \o <<Head(q)>>

processQueuedEventsNewestFirst(st, event) ==
  IF Len(st.eventQueue[event]) = 0 THEN st
  ELSE LET q == st.eventQueue[event]
       IN drainQueue([st EXCEPT !.eventQueue[event] = Reverse(q)], event)

processQueuedEventsDiscard(st, event) ==
  IF Len(st.eventQueue[event]) = 0 THEN st
  ELSE [drainQueue(st, event) EXCEPT !.eventQueue[event] = <<>>]

processQueuedEvents(st, event) ==
  IF Len(st.eventQueue[event]) = 0 THEN st ELSE drainQueue(st, event)

\* handlers.add(handler): a Set keeps one entry per function
addHandler(entries, h) ==
  IF \E i \in 1..Len(entries): entries[i] = OnEntry(h)
    THEN entries ELSE Append(entries, OnEntry(h))

on(st, event, h) ==
  processQueuedEvents([st EXCEPT !.eventHandlers[event] = addHandler(@, h)], event)

onceNeverRemoved(st, event, h) ==
  processQueuedEvents(
    [st EXCEPT !.eventHandlers[event] = Append(@, OnEntry(h))], event)

\* every call of once makes a wrapper of its own
once(st, event, h) ==
  processQueuedEvents(
    [st EXCEPT !.eventHandlers[event] = Append(@, OnceEntry(h))], event)

\* this.doEmit(event, ...args); an exception leaves emit as it came
emit(st, event, args) ==
  LET st1 == doEmit(st, event, args)
  IN IF st1.thrown THEN Log(st1, [t |-> "uncaught", by |-> "emit"]) ELSE st1

\* setTimeout(() => this.doEmit(event, ...args), 0): nothing runs now
emitLaterAtOnce(st, event, args) ==
  doEmit([st EXCEPT !.deferred = @ \cup {event}], event, args)

emitLaterAsMicrotask(st, event, args) ==
  [st EXCEPT !.microtasks = Append(@, [event |-> event, args |-> args]),
             !.deferred = @ \cup {event}]

emitLater(st, event, args) ==
  [st EXCEPT !.timers = Append(@, [event |-> event, args |-> args]),
             !.deferred = @ \cup {event}]

----------------------------------------------------------------------------
(* The validation coordinator *)

NewRun ==
  [starts |-> 0, dones |-> 0, startsBefore |-> 0, values |-> [k \in Keys |-> 0],
   calls |-> <<>>, errors |-> NullResult, pendingAtEmit |-> 0]

\* for (const validator of this.validators) { const result = validator(values) .. }
RECURSIVE callEach(_, _)
callEach(vs, values) ==
  IF vs = <<>> THEN <<>>
  ELSE <<callValidator(Head(vs), values)>> \o callEach(Tail(vs), values)

\* syncResults (async = FALSE) and asyncValidators (async = TRUE), each in
\* the order of the calls
RECURSIVE Results(_, _)
Results(calls, async) ==
  IF calls = <<>> THEN <<>>
  ELSE (IF Head(calls).v.async = async THEN <<Head(calls).res>> ELSE <<>>)
         \o Results(Tail(calls), async)

\* the promises handed to Promise.all: none of them has settled (resolved),
\* to none of them Promise.all has reacted yet (reacted)
RECURSIVE Promises(_)
Promises(results) ==
  IF results = <<>> THEN <<>>
  ELSE <<[res |-> Head(results), resolved |-> FALSE, reacted |-> FALSE]>>
         \o Promises(Tail(results))

\* what Promise.all resolves with: the results in the order of the promises
RECURSIVE asyncResultsOf(_)
asyncResultsOf(promises) ==
  IF promises = <<>> THEN <<>>
  ELSE <<Head(promises).res>> \o asyncResultsOf(Tail(promises))

\* runValidation suspended at `await Promise.all(asyncValidators)`
Suspended(id, values, errors, asyncValidators) ==
  [id |-> id, values |-> values, errors |-> errors,
   promises |-> Promises(asyncValidators), settled |-> FALSE]

emitValidatedSetsErrors(st, id, values, errors, pending) ==
  LET st0 == IF errors = NullResult THEN setErrors(st, EmptyErrors)
             ELSE setErrors(st, errors.m)
      st1 == [st0 EXCEPT !.isValidating = FALSE,
                         !.runlog[id].dones = @ + 1,
                         !.runlog[id].startsBefore = st.runlog[id].starts,
                         !.runlog[id].errors = errors,
                         !.runlog[id].pendingAtEmit = pending]
  IN [doEmit(st1, "validated", <<values, errors>>) EXCEPT !.thrown = FALSE]

\* this.isValidating = false; this.emit('validated', values, errors)
emitValidated(st, id, values, errors, pending) ==
  LET st1 == [st EXCEPT !.isValidating = FALSE,
                        !.runlog[id].dones = @ + 1,
                        !.runlog[id].startsBefore = st.runlog[id].starts,
                        !.runlog[id].errors = errors,
                        !.runlog[id].pendingAtEmit = pending]
  \* an exception of a handler rejects the promise of runValidation, which
  \* nobody holds
  IN [doEmit(st1, "validated", <<values, errors>>) EXCEPT !.thrown = FALSE]

runValidationFallThrough(st) ==
  LET id == Len(st.runlog) + 1
      st1 == [st EXCEPT !.isValidating = TRUE, !.runlog = Append(@, NewRun)]
      st2 == doEmit([st1 EXCEPT !.runlog[id].starts = @ + 1],
                    "validationStart", <<>>)
      values == getValues(st2)
      calls == callEach(validators, values)
      syncResults == Results(calls, FALSE)
      asyncValidators == Results(calls, TRUE)
      errors == mergeResults(EmptyErrors, syncResults)
      st3 == [st2 EXCEPT !.runlog[id].values = values, !.runlog[id].calls = calls]
      st4 == IF DOMAIN errors # {}
               THEN emitValidated(st3, id, values, Mapping(errors),
                                  Len(asyncValidators))
               ELSE st3
  IN IF Len(asyncValidators) > 0
       THEN [st4 EXCEPT !.runs =
               Append(@, Suspended(id, values, errors, asyncValidators))]
     ELSE emitValidated(st4, id, values, errorsOrNull(errors), 0)

\* the calls of the loop over this.validators that throw
Thrown(calls) == {i \in 1..Len(calls): ~calls[i].v.async /\ calls[i].res = Fault}

FirstThrown(calls) == CHOOSE i \in Thrown(calls): \A j \in Thrown(calls): i <= j

\* runValidation up to its return or to `await Promise.all(asyncValidators)`;
\* a validator that throws ends the async function there: its promise
\* rejects, and the handler of 'validate' drops that promise
runValidation(st) ==
  LET id == Len(st.runlog) + 1
      st1 == [st EXCEPT !.isValidating = TRUE, !.runlog = Append(@, NewRun)]
      st2 == doEmit([st1 EXCEPT !.runlog[id].starts = @ + 1],
                    "validationStart", <<>>)
      values == getValues(st2)
      calls == callEach(validators, values)
      syncResults == Results(calls, FALSE)
      asyncValidators == Results(calls, TRUE)
      errors == mergeResults(EmptyErrors, syncResults)
      st3 == [st2 EXCEPT !.runlog[id].values = values, !.runlog[id].calls = calls]
  IN IF st2.thrown
       THEN [st2 EXCEPT !.thrown = FALSE]
     ELSE IF Thrown(calls) # {}
       THEN [st2 EXCEPT !.runlog[id].values = values,
                        !.runlog[id].calls = SubSeq(calls, 1, FirstThrown(calls))]
     ELSE IF DOMAIN errors # {}
       THEN emitValidated(st3, id, values, Mapping(errors), Len(asyncValidators))
     ELSE IF Len(asyncValidators) > 0
       THEN [st3 EXCEPT !.runs =
               Append(@, Suspended(id, values, errors, asyncValidators))]
     ELSE emitValidated(st3, id, values, errorsOrNull(errors), 0)

Remove(seq, i) == SubSeq(seq, 1, i - 1) \o SubSeq(seq, i + 1, Len(seq))

resumeValidationCurrentValues(st, r) ==
  LET run == st.runs[r]
      asyncResults == asyncResultsOf(run.promises)
      errors == mergeResults(run.errors, asyncResults)
      st1 == [st EXCEPT !.runs = Remove(@, r)]
  IN emitValidated(st1, run.id, getValues(st), errorsOrNull(errors), 0)

\* runValidation from the point where Promise.all has resolved
resumeValidation(st, r) ==
  LET run == st.runs[r]
      asyncResults == asyncResultsOf(run.promises)
      errors == mergeResults(run.errors, asyncResults)
      st1 == [st EXCEPT !.runs = Remove(@, r)]
  IN emitValidated(st1, run.id, run.values, errorsOrNull(errors), 0)

\* The promise of one asynchronous validator settles: the reaction that
\* Promise.all attached to it is queued as a microtask.
resolvePromise(st, r, i) ==
  [st EXCEPT !.runs[r].promises[i].resolved = TRUE,
             !.microtasks = Append(@, [reaction |-> st.runs[r].id,
                                       promise |-> i])]

\* the run of that id is suspended at its await
Suspends(st, id) == \E j \in 1..Len(st.runs): st.runs[j].id = id

RunIndex(st, id) == CHOOSE j \in 1..Len(st.runs): st.runs[j].id = id

promiseReactionRace(st, id, i) ==
  IF ~Suspends(st, id) THEN st
  ELSE LET r == RunIndex(st, id)
           run == st.runs[r]
       IN IF run.settled THEN [st EXCEPT !.runs[r].promises[i].reacted = TRUE]
          ELSE [st EXCEPT !.runs[r].promises =
                            <<[res |-> run.promises[i].res, resolved |-> TRUE,
                               reacted |-> TRUE]>>,
                          !.runs[r].settled = TRUE,
                          !.microtasks = Append(@, [resume |-> id])]

\* The reaction of Promise.all to one of its promises.  Promise.all settles
\* with the first rejection or with the last fulfilment it reacts to, and
\* that queues the continuation of the awaiting runValidation as a
\* microtask.  Nothing is left to do for a run that has ended.
promiseReaction(st, id, i) ==
  IF ~Suspends(st, id) THEN st
  ELSE LET r == RunIndex(st, id)
           run == st.runs[r]
           st1 == [st EXCEPT !.runs[r].promises[i].reacted = TRUE]
       IN IF ~run.settled
               /\ \/ run.promises[i].res = Fault
                  \/ \A j \in 1..Len(run.promises):
                       j # i => run.promises[j].reacted
            THEN [st1 EXCEPT !.runs[r].settled = TRUE,
                             !.microtasks = Append(@, [resume |-> id])]
            ELSE st1

\* Promise.all has rejected: it has reacted to the rejection of a promise
Rejected(run) ==
  \E i \in 1..Len(run.promises):
     run.promises[i].reacted /\ run.promises[i].res = Fault

\* the continuation of runValidation after `await Promise.all(..)`: the await
\* throws if Promise.all rejected, and then nothing of the rest runs
continueValidation(st, id) ==
  LET r == RunIndex(st, id)
  IN IF Rejected(st.runs[r])
       THEN [st EXCEPT !.runs = Remove(@, r)]
       ELSE resumeValidation(st, r)

----------------------------------------------------------------------------
(* Steps *)

\* no iteration is in progress between steps: deleted entries are gone
Compact(f) == [x \in DOMAIN f |-> Live(f[x])]

\* the handler that the history lateOnce follows
Watched == "h1"

WatchedCalled(tr) ==
  \E i \in 1..Len(tr): tr[i].t = "call" /\ tr[i].h = Watched /\ tr[i].e = "validated"

\* the step was once('validated', Watched) in a turn that had already called
\* emitLater('validate')
LateOnceStep(tr, def) ==
  IsOp(tr, "once", <<"validated", Watched>>) /\ "validate" \in def

\* the state after a step is what the step's calls have made of it; late is
\* the history lateOnce before the step
CommitAfter(st, late) ==
  /\ deferred' = st.deferred
  /\ lateOnce' =
       IF LateOnceStep(st.trace, st.deferred)
         THEN (IF WatchedCalled(st.trace) THEN "served" ELSE "armed")
       ELSE IF late = "armed" /\ WatchedCalled(st.trace) THEN "served"
       ELSE late
  /\ spent' = st.spent
  /\ unsubscribers' = st.unsubscribers
  /\ fieldUnsubscribers' = st.fieldUnsubscribers
  /\ fields' = st.fields
  /\ fieldOrder' = st.fieldOrder
  /\ fieldSubscribers' = Compact(st.fieldSubscribers)
  /\ eventHandlers' = Compact(st.eventHandlers)
  /\ eventQueue' = st.eventQueue
  /\ isValidating' = st.isValidating
  /\ runs' = st.runs
  /\ timers' = st.timers
  /\ microtasks' = st.microtasks
  /\ observer' = [st.observer EXCEPT !.fields = Held(st)]
  /\ runlog' = st.runlog
  /\ trace' = st.trace

Commit(st) == CommitAfter(st, lateOnce)

\* the host's code runs in a task, and a task starts only when the microtask
\* queue is empty
HostMayRun == turnOpen \/ microtasks = <<>>

\* a call made by the host program's synchronous code
Call(st) ==
  /\ HostMayRun
  /\ Commit(st)
  /\ turnOpen' = TRUE

\* new Form(initialValues): the constructor subscribes runValidation to
\* 'validate'.  Nothing is scheduled for the new container, nobody holds
\* anything of it, and it has no history.
NewForm ==
  [fields |-> valuesToFields(initialValues),
   fieldOrder |-> ObjectKeys(initialValues),
   fieldSubscribers |-> [k \in Keys |-> <<>>],
   eventHandlers |->
     [e \in Events |-> IF e = "validate" THEN <<Builtin("runValidation")>> ELSE <<>>],
   eventQueue |-> [e \in Events |-> <<>>],
   isValidating |-> FALSE, runs |-> <<>>, timers |-> <<>>, microtasks |-> <<>>,
   spent |-> {}, unsubscribers |-> {}, fieldUnsubscribers |-> {},
   deferred |-> {}, observer |-> NoObserver, runlog |-> <<>>,
   thrown |-> FALSE, trace |-> <<>>]

Init ==
  /\ fields = NewForm.fields
  /\ fieldOrder = NewForm.fieldOrder
  /\ fieldSubscribers = NewForm.fieldSubscribers
  /\ eventHandlers = NewForm.eventHandlers
  /\ eventQueue = NewForm.eventQueue
  /\ validators = <<>>
  /\ isValidating = NewForm.isValidating
  /\ runs = NewForm.runs
  /\ timers = NewForm.timers
  /\ microtasks = NewForm.microtasks
  /\ turnOpen = FALSE
  /\ installed = {}
  /\ spent = NewForm.spent
  /\ unsubscribers = NewForm.unsubscribers
  /\ fieldUnsubscribers = NewForm.fieldUnsubscribers
  /\ deferred = NewForm.deferred
  /\ lateOnce = "none"
  /\ observer = NewForm.observer
  /\ runlog = NewForm.runlog
  /\ trace = NewForm.trace

UserEntries(entries) == SelectSeq(entries, LAMBDA x: x.kind \in {"on", "once"})

\* the records of type T, with their keys in either order
Snapshots ==
  { << <<"a", x>>, <<"b", y>> >> : x \in Vals, y \in Vals }
    \cup { << <<"b", y>>, <<"a", x>> >> : x \in Vals, y \in Vals }

\* Partial<Record<keyof T, string>>: some keys, each with a message
Partials ==
  {EmptyErrors, ErrorsOf("a", "m1"), ErrorsOf("b", "m1"), ErrorsOf("a", ""),
   [k \in Keys |-> "m1"], [k \in Keys |-> IF k = "a" THEN "" ELSE "m1"]}

\* object literals, as their entries in insertion order
SomeValues == {<< <<"b", 1>>, <<"a", 1>> >>, << <<"a", 0>> >>}
ManyValues == {<< <<"a", 1>>, <<"b", 1>> >>}
SomeNames == {<<"a">>, <<"b", "a">>, <<"a", "a">>}
ManyNames == {<<"a", "b">>}

\* EventMap: the arguments that an emit of each event carries
ArgsOf(event) ==
  CASE event = "change" -> {<<k, v>> : k \in Keys, v \in Vals}
    [] event \in {"changeMany", "changeSome"} ->
         {<<p>> : p \in SomeValues \cup ManyValues}
    [] event = "touch" -> {<<k>> : k \in Keys}
    [] event \in {"touchMany", "touchSome"} ->
         {<<n>> : n \in SomeNames \cup ManyNames}
    [] event = "reset" -> {<<>>} \cup {<<v>> : v \in Snapshots}
    [] event = "errors" -> {<<p>> : p \in Partials}
    [] event = "validated" ->
         {<<v, e>> : v \in [Keys -> Vals],
                     e \in {NullResult} \cup {Mapping(p) : p \in Partials}}
    [] OTHER -> {<<>>}

\* timers that will start a validation run when they fire
ValidateTimers == Len(SelectSeq(timers, LAMBDA t: t.event = "validate"))

CanEmit(event) ==
  /\ Len(eventQueue[event]) < MaxQueue
  /\ event = "validate" => Len(runlog) + ValidateTimers < MaxRuns

CallOn(event, h) ==
  /\ Len(UserEntries(eventHandlers[event])) < MaxHandlers
  /\ Call(on(Begin("on", <<event, h>>), event, h))
  /\ UNCHANGED <<validators, installed>>

\* const unsubscribe = form.on(event, h): the host keeps the returned function
Unsubscriber(event, h, called) == [event |-> event, h |-> h, called |-> called]

\* When a handler throws in the queue replay of on(), on() returns nothing:
\* the handler is registered and the host has no function to remove it.
CallOnKeep(event, h) ==
  /\ Len(UserEntries(eventHandlers[event])) < MaxHandlers
  /\ LET st == on(Begin("on", <<event, h>>), event, h)
     IN Call(IF st.thrown THEN st
             ELSE [st EXCEPT !.unsubscribers =
                               @ \cup {Unsubscriber(event, h, FALSE)}])
  /\ UNCHANGED <<validators, installed>>

\* the host calls an unsubscribe function it holds, for the first time or again
CallUnsubscribe(u) ==
  /\ u \in unsubscribers
  /\ Call([unsubscribe(Begin("unsubscribe", <<u.event, u.h, u.called>>),
                       u.event, u.h) EXCEPT
            !.unsubscribers = (@ \ {u}) \cup {Unsubscriber(u.event, u.h, TRUE)}])
  /\ UNCHANGED <<validators, installed>>

CallOnce(event, h) ==
  /\ Len(UserEntries(eventHandlers[event])) < MaxHandlers
  /\ Call(once(Begin("once", <<event, h>>), event, h))
  /\ UNCHANGED <<validators, installed>>

CallEmit(event, args) ==
  /\ CanEmit(event)
  /\ Call(emit(Begin("emit", <<event, args>>), event, args))
  /\ UNCHANGED <<validators, installed>>

CallEmitLater(event, args) ==
  /\ CanEmit(event)
  /\ Len(timers) < MaxTimers
  /\ Call(emitLater(Begin("emitLater", <<event, args>>), event, args))
  /\ UNCHANGED <<validators, installed>>

CallSetValue(key, value) ==
  /\ Call(setValue(Begin("setValue", <<key, value>>), key, value))
  /\ UNCHANGED <<validators, installed>>

CallSetError(key, error) ==
  /\ Call(setError(Begin("setError", <<key, error>>), key, error))
  /\ UNCHANGED <<validators, installed>>

subscribeField(st, key, s) == [st EXCEPT !.fieldSubscribers[key] = addHandler(@, s)]

CallSubscribeField(key, s) ==
  /\ Call(subscribeField(Begin("subscribeField", <<key, s>>), key, s))
  /\ UNCHANGED <<validators, installed>>

\* const unsubscribe = form.subscribeField(key, s), kept by the host
FieldUnsubscriber(key, s, called) == [key |-> key, s |-> s, called |-> called]

CallSubscribeFieldKeep(key, s) ==
  /\ Call([subscribeField(Begin("subscribeField", <<key, s>>), key, s) EXCEPT
            !.fieldUnsubscribers = @ \cup {FieldUnsubscriber(key, s, FALSE)}])
  /\ UNCHANGED <<validators, installed>>

\* the function returned by subscribeField(key, s): subscribers.delete(callback)
unsubscribeField(st, key, s) ==
  [st EXCEPT !.fieldSubscribers[key] = delete(@, OnEntry(s))]

CallUnsubscribeField(u) ==
  /\ u \in fieldUnsubscribers
  /\ Call([unsubscribeField(Begin("unsubscribeField", <<u.key, u.s, u.called>>),
                            u.key, u.s) EXCEPT
            !.fieldUnsubscribers =
               (@ \ {u}) \cup {FieldUnsubscriber(u.key, u.s, TRUE)}])
  /\ UNCHANGED <<validators, installed>>

CallRegisterValidator(v) ==
  /\ Len(validators) < MaxValidators
  /\ validators' = Append(validators, v)
  /\ Call(Begin("registerValidator", <<v>>))
  /\ UNCHANGED installed

\* form.on(event, builtin): a closure of its own, then the queue replay
onBuiltin(st, event, h) ==
  IF st.thrown THEN st
  ELSE processQueuedEvents(
         [st EXCEPT !.eventHandlers[event] = Append(@, Builtin(h))], event)

changeHandlers(st) ==
  onBuiltin(onBuiltin(onBuiltin(onBuiltin(onBuiltin(st,
    "change", "setValue"), "changeSome", "setValues"), "touch", "touch"),
    "touchSome", "touchEach"), "reset", "reset")

\* form.on('errors', (newErrors) => form.setErrors(newErrors))
errorHandlers(st) == onBuiltin(st, "errors", "setErrors")

\* new FormBuilder(initialValues): this.form = new Form(initialValues),
\* changeHandlers(this.form), errorHandlers(this.form); Form.debugMode is
\* false.  The container of the builder is a new one: from here on the state
\* is that container's, and what the host did with a Form it made before
\* stays with that Form.
NewFormBuilder ==
  /\ installed = {}
  /\ installed' = {"changeHandlers", "errorHandlers"}
  /\ validators' = <<>>
  /\ HostMayRun
  /\ CommitAfter(errorHandlers(changeHandlers(
                   [NewForm EXCEPT !.trace = <<Op("FormBuilder", <<>>)>>])),
                 "none")
  /\ turnOpen' = TRUE

CallTouch(key) ==
  /\ Call(touch(Begin("touch", <<key>>), key))
  /\ UNCHANGED <<validators, installed>>

CallReset(snapshot) ==
  /\ Call(reset(Begin("reset", <<snapshot>>), snapshot))
  /\ UNCHANGED <<validators, installed>>

CallSetValues(newValues) ==
  /\ Call(setValues(Begin("setValues", <<newValues>>), newValues))
  /\ UNCHANGED <<validators, installed>>

CallSetErrors(newErrors) ==
  /\ Call(setErrors(Begin("setErrors", <<newErrors>>), newErrors))
  /\ UNCHANGED <<validators, installed>>

UseChangeHandlers ==
  /\ "changeHandlers" \notin installed
  /\ installed' = installed \cup {"changeHandlers"}
  /\ Call(changeHandlers(Begin("changeHandlers", <<>>)))
  /\ UNCHANGED validators

\* The plugins that the host hands to FormBuilder.use: changeHandlers once
\* more, zod(schema) and validateZodSchema(schema) for a schema that wants a
\* non-zero a, and a function of the host's with arguments of its own,
\* (form, key, value) => form.setValue(key, value).
Plugins == {"changeHandlers", "zod", "validateZodSchema", "setValue"}

PluginArgs(plugin) == IF plugin = "setValue" THEN {<<"a", 1>>} ELSE {<<>>}

\* the validator that zod(schema) registers: (values) => the first message
\* of each path, or null when the schema accepts the values
zod == Validator(FALSE, 1, "req", "a", "m1")

\* how `installed` names an application of the plugin through use
Applied(plugin) ==
  IF plugin = "changeHandlers" THEN "changeHandlers again" ELSE plugin

\* plugin(this.form, ...args); return this
use(st, plugin, args) ==
  CASE plugin = "changeHandlers" -> changeHandlers(st)
    [] plugin = "zod" -> st
    [] plugin = "validateZodSchema" ->
         onBuiltin(st, "validate", "validateZodSchema")
    [] plugin = "setValue" -> setValue(st, args[1], args[2])

\* builder.use(plugin, ...args) on the builder's container; zod's plugin
\* calls form.registerValidator
CallUse(plugin, args) ==
  /\ {"changeHandlers", "errorHandlers"} \subseteq installed
  /\ Applied(plugin) \notin installed
  /\ Cardinality(installed) < 2 + MaxPlugins
  /\ plugin = "zod" => Len(validators) < MaxValidators
  /\ installed' = installed \cup {Applied(plugin)}
  /\ validators' = IF plugin = "zod" THEN Append(validators, zod)
                                      ELSE validators
  /\ Call(use(Begin("use", <<plugin, args>>), plugin, args))

\* the host's synchronous code returns to the event loop
EndTurn ==
  /\ turnOpen
  /\ turnOpen' = FALSE
  /\ Commit([Begin("endTurn", <<>>) EXCEPT !.deferred = {}])
  /\ UNCHANGED <<validators, installed>>

\* the event loop runs the oldest emitLater callback
fireTimer(st) ==
  doEmit([st EXCEPT !.timers = Tail(@)], Head(st.timers).event, Head(st.timers).args)

\* queueMicrotask(() => form.emit(event, ...args)), called by the host program
queueMicrotask(st, event, args) ==
  [st EXCEPT !.microtasks = Append(@, [event |-> event, args |-> args])]

CallQueueMicrotask(event, args) ==
  /\ CanEmit(event)
  /\ Len(microtasks) < MaxMicrotasks
  /\ Call(queueMicrotask(Begin("queueMicrotask", <<event, args>>), event, args))
  /\ UNCHANGED <<validators, installed>>

\* the oldest microtask runs, as soon as the synchronous code has returned
\* what a queued microtask is: an observer's update or a host's emit
MicrotaskName(m) ==
  IF "update" \in DOMAIN m THEN m.update
  ELSE IF "resume" \in DOMAIN m THEN "resume"
  ELSE IF "reaction" \in DOMAIN m THEN "reaction" ELSE m.event

\* how the step of a microtask is named in the trace
MicrotaskArgs(m) ==
  IF MicrotaskName(m) = "resume" THEN <<"resume", m.resume>>
  ELSE IF MicrotaskName(m) = "reaction" THEN <<"reaction", m.reaction, m.promise>>
  ELSE <<MicrotaskName(m)>>

\* pendingUpdate = false; setFields(this.form.getSlice(keys)).  The flag is
\* the one of the closure that queued the microtask.
flushUpdate(st, m) ==
  Log([st EXCEPT !.observer.pendingUpdate = IF m.stale THEN @ ELSE FALSE,
                 !.observer.fields = getSlice(st, st.observer.keys),
                 !.observer.shared = Named(st.observer.keys)],
      [t |-> "setFields", fields |-> getSlice(st, st.observer.keys)])

\* pendingValidationUpdate = false; setIsValidating(isValidating)
flushValidationUpdate(st, m) ==
  Log([st EXCEPT !.observer.pendingValidationUpdate = IF m.stale THEN @ ELSE FALSE,
                 !.observer.isValidating = m.isValidating],
      [t |-> "setIsValidating", isValidating |-> m.isValidating])

runMicrotask(st) ==
  LET m == Head(st.microtasks)
      st1 == [st EXCEPT !.microtasks = Tail(@)]
  IN CASE MicrotaskName(m) = "setFields" -> flushUpdate(st1, m)
       [] MicrotaskName(m) = "setIsValidating" -> flushValidationUpdate(st1, m)
       [] MicrotaskName(m) = "reaction" -> promiseReaction(st1, m.reaction, m.promise)
       [] MicrotaskName(m) = "resume" -> continueValidation(st1, m.resume)
       [] OTHER -> doEmit(st1, m.event, m.args)

RunMicrotask ==
  /\ ~turnOpen
  /\ microtasks # <<>>
  /\ Commit(runMicrotask(Begin("microtask", MicrotaskArgs(Head(microtasks)))))
  /\ UNCHANGED <<validators, turnOpen, installed>>

\* a task starts only when the microtask queue is empty
TimerFire ==
  /\ ~turnOpen
  /\ microtasks = <<>>
  /\ timers # <<>>
  /\ Commit(fireTimer(Begin("timer", <<Head(timers).event>>)))
  /\ UNCHANGED <<validators, turnOpen, installed>>

\* The promise of one asynchronous validator settles: by the host's
\* synchronous code (a promise that is resolved when the validator returns it
\* included), in a later task, or from a microtask.  What Promise.all does
\* about it runs later, as a microtask.
ResolveAsync(r, i) ==
  /\ r \in 1..Len(runs)
  /\ i \in 1..Len(runs[r].promises)
  /\ ~runs[r].promises[i].resolved
  /\ Commit(resolvePromise(Begin("resolve", <<runs[r].id, i>>), r, i))
  /\ UNCHANGED <<validators, turnOpen, installed>>

----------------------------------------------------------------------------
(* Specifications.  Each exercises one part of the container from the      *)
(* state after construction; the parts share the state and the steps.      *)

\* The event hub of a bare Form: 'change' has no handler until the host
\* program subscribes one, so emitted payloads queue up and are replayed.
HubEvents == {"change", "validationStart"}

NextHub ==
  \/ \E e \in HubEvents, h \in UserHandlers: CallOn(e, h)
  \/ \E e \in HubEvents, h \in UserHandlers: CallOnce(e, h)
  \/ \E e \in HubEvents: \E args \in ArgsOf(e): CallEmit(e, args)
  \/ \E e \in HubEvents: \E args \in ArgsOf(e): CallEmitLater(e, args)
  \/ EndTurn
  \/ TimerFire

SpecHub == Init /\ [][NextHub]_vars

\* The field store, driven by direct calls and, once changeHandlers is
\* applied, by 'change' events.
NextStore ==
  \/ \E k \in Keys, v \in Vals: CallSetValue(k, v)
  \/ \E k \in Keys, m \in Msgs \cup {Null}: CallSetError(k, m)
  \/ \E k \in Keys, s \in FieldCallbacks: CallSubscribeField(k, s)
  \/ \E args \in ArgsOf("change"): CallEmit("change", args)
  \/ UseChangeHandlers
  \/ EndTurn

SpecStore == Init /\ [][NextStore]_vars

\* The validation coordinator: validators are registered, values change,
\* validation is requested, asynchronous results arrive in any order.
NextVal ==
  \/ \E v \in ValidatorKinds: CallRegisterValidator(v)
  \/ \E v \in Vals: CallSetValue("a", v)
  \/ CallEmit("validate", <<>>)
  \/ CallOn("validated", "h1")
  \/ EndTurn
  \/ \E r \in 1..MaxRuns, i \in 1..MaxValidators: ~turnOpen /\ ResolveAsync(r, i)
  \/ RunMicrotask

SpecVal == Init /\ [][NextVal]_vars

FaultValidators ==
  { Validator(FALSE, 1, "req", "a", "m1"),
    Validator(FALSE, 1, "fault", "a", "m1"),
    Validator(TRUE, 1, "fault", "a", "m1"),
    Validator(TRUE, 1, "req", "b", "m1") }

\* Validation with validators that throw or whose promise rejects.
NextFault ==
  \/ \E v \in FaultValidators: CallRegisterValidator(v)
  \/ CallSetValue("a", 1)
  \/ CallEmit("validate", <<>>)
  \/ CallOn("validated", "h1")
  \/ EndTurn
  \/ \E r \in 1..MaxRuns, i \in 1..MaxValidators: ~turnOpen /\ ResolveAsync(r, i)
  \/ RunMicrotask

SpecFault == Init /\ [][NextFault]_vars

\* Deferred validation: emitLater('validate') and once('validated', ..) in
\* any order and turn, with a validated subscriber that may already exist.
\* The event loop runs every timer and delivers every validator result, and
\* the host's synchronous code ends.
LaterValidators ==
  { Validator(FALSE, 1, "req", "a", "m1"), Validator(TRUE, 1, "req", "b", "m1") }

NextLater ==
  \/ \E v \in LaterValidators: CallRegisterValidator(v)
  \/ CallEmitLater("validate", <<>>)
  \/ CallEmit("validate", <<>>)
  \/ CallOnce("validated", Watched)
  \/ CallOn("validated", "h2")
  \/ EndTurn
  \/ TimerFire
  \/ \E r \in 1..MaxRuns, i \in 1..MaxValidators: ~turnOpen /\ ResolveAsync(r, i)
  \/ RunMicrotask

\* What the event loop's steps do to the variable each of them changes:
\* the scheduling conditions are stated on these.
TurnEnds == turnOpen /\ turnOpen' = FALSE

TimerFires ==
  ~turnOpen /\ microtasks = <<>> /\ timers # <<>> /\ timers' = Tail(timers)

ResultArrives(r, i) ==
  /\ ~turnOpen
  /\ r \in 1..Len(runs)
  /\ i \in 1..Len(runs[r].promises)
  /\ ~runs[r].promises[i].resolved
  /\ runs' = resolvePromise(St, r, i).runs

\* without a mounted component the only microtask that queues another one
\* is the reaction that queues the continuation of its run
MicrotaskRuns ==
  /\ ~turnOpen
  /\ microtasks # <<>>
  /\ ~observer.mounted
  /\ microtasks' \in
       {Tail(microtasks)}
         \cup (IF MicrotaskName(Head(microtasks)) = "reaction"
                 THEN {Append(Tail(microtasks),
                              [resume |-> Head(microtasks).reaction])}
                 ELSE {})

SpecLater ==
  /\ Init
  /\ [][NextLater]_vars
  /\ WF_turnOpen(TurnEnds)
  /\ SF_timers(TimerFires)
  /\ \A r \in 1..MaxRuns, i \in 1..MaxValidators: SF_runs(ResultArrives(r, i))
  /\ WF_microtasks(MicrotaskRuns)

\* The container that FormBuilder hands out, driven through every
\* request-type event and through the store's methods.
BuiltArgs(event) ==
  CASE event = "changeSome" -> {<<p>> : p \in SomeValues}
    [] event = "changeMany" -> {<<p>> : p \in ManyValues}
    [] event = "touchSome" -> {<<n>> : n \in SomeNames}
    [] event = "touchMany" -> {<<n>> : n \in ManyNames}
    [] OTHER -> ArgsOf(event)

RequestEvents ==
  {"change", "changeMany", "touch", "touchMany", "reset", "errors", "validate"}

Built == {"changeHandlers", "errorHandlers"} \subseteq installed

StoreEvents ==
  {"change", "changeSome", "touch", "touchSome", "touchMany", "reset", "errors"}

NextBuilt ==
  \/ NewFormBuilder
  \/ \E e \in StoreEvents: \E args \in BuiltArgs(e): Built /\ CallEmit(e, args)
  \/ \E k \in Keys: Built /\ CallTouch(k)
  \/ \E k \in Keys: Built /\ CallSetError(k, "m2")
  \/ \E v \in Snapshots: Built /\ CallReset(v)
  \/ \E p \in Partials: Built /\ CallSetErrors(p)
  \/ \E p \in SomeValues: Built /\ CallSetValues(p)
  \/ \E k \in Keys, s \in FieldCallbacks: CallSubscribeField(k, s)

SpecBuilt == Init /\ [][NextBuilt]_vars

\* Every request-type event emitted on the container that FormBuilder hands
\* out, with validation included.
\* "c" is a key the construction-time record does not have
RequestArgs(event) ==
  CASE event = "change" -> {<<"a", 1>>, <<"b", 1>>, <<"c", 1>>}
    [] event = "changeSome" -> {<< << <<"c", 1>>, <<"a", 1>> >> >>}
    [] event = "reset" -> {<<>>, << << <<"b", 1>>, <<"a", 1>> >> >>}
    [] event = "errors" -> {<<ErrorsOf("a", "m1")>>, <<ErrorsOf("c", "m1")>>}
    [] OTHER -> BuiltArgs(event)

\* the host has applied plugins of its own to the builder's container
Plugged == Built /\ installed # {"changeHandlers", "errorHandlers"}

\* the builder is being configured: nothing but the constructor and use has
\* run so far in this step's past
Configuring ==
  trace # <<>> /\ trace[1].name \in {"FormBuilder", "use"}

\* the requests made of a container that has plugins of the host
PluginRequest(e, args) ==
  \/ e = "validate"
  \/ e = "change" /\ args = <<"a", 1>>
  \/ e = "touch" /\ args = <<"a">>
  \/ e = "reset" /\ args = <<>>

\* The builder's container with every request event; the host may configure
\* the builder with plugins first (builder.use(...).use(...)) and then
\* listens to 'validated' and to field a.
NextRequests ==
  \/ NewFormBuilder
  \/ \E p \in Plugins: \E args \in PluginArgs(p):
       Configuring /\ CallUse(p, args)
  \/ Plugged /\ CallOn("validated", "h1")
  \/ Plugged /\ CallSubscribeField("a", "s1")
  \/ \E e \in RequestEvents \cup {"changeSome"}:
       \E args \in RequestArgs(e):
         /\ Built
         /\ Plugged => PluginRequest(e, args)
         /\ CallEmit(e, args)

SpecRequests == Init /\ [][NextRequests]_vars

\* Validation on a built container whose fields have subscribers and get
\* their errors from the 'errors' event.
NextValFrame ==
  \/ NewFormBuilder
  \/ \E v \in LaterValidators: CallRegisterValidator(v)
  \/ \E k \in Keys, s \in FieldCallbacks: CallSubscribeField(k, s)
  \/ Built /\ CallEmit("validate", <<>>)
  \/ Built /\ CallEmit("change", <<"a", 1>>)
  \/ Built /\ CallEmit("errors", <<ErrorsOf("b", "m1")>>)
  \/ CallOn("validated", "h1")
  \/ EndTurn
  \/ \E r \in 1..MaxRuns, i \in 1..MaxValidators: ~turnOpen /\ ResolveAsync(r, i)
  \/ RunMicrotask

SpecValFrame == Init /\ [][NextValFrame]_vars

\* keys.forEach((key) => unsubscribers.push(form.subscribeField(key, scheduleUpdate)))
RECURSIVE subscribeEach(_, _)
subscribeEach(st, keys) ==
  IF keys = <<>> THEN st
  ELSE subscribeEach(subscribeField(st, Head(keys), "scheduleUpdate"), Tail(keys))

\* keys.some((key) => this.form.get(key).isTouched)
someTouched(st, keys) == \E k \in Named(keys): st.fields[k].isTouched

\* useSlice(keys), the first render of the component: useState keeps the
\* slice and the flag that the container has now, useMemo the isTouched of
\* now, and useEffect asks for the effect, which React runs later
useSlice(st, keys) ==
  [st EXCEPT !.observer =
     [hook |-> "useSlice", phase |-> "rendered", mounted |-> FALSE,
      tornDown |-> FALSE, effectPending |-> TRUE,
      keys |-> keys, fields |-> getSlice(st, keys), shared |-> Named(keys),
      isValidating |-> st.isValidating, isTouched |-> someTouched(st, keys),
      pendingUpdate |-> FALSE, pendingValidationUpdate |-> FALSE]]

\* useSlice(keys), a later render: useState gives the state it has; with
\* keys that are the array of the render before, nothing else happens; with
\* a new array (useForm builds one at every render) useMemo computes
\* isTouched again and useEffect asks for the effect again
useSliceAgain(st, newKeys) ==
  IF newKeys
    THEN [st EXCEPT !.observer.isTouched = someTouched(st, st.observer.keys),
                    !.observer.effectPending = TRUE]
    ELSE st

\* const allKeys = Object.keys(this.form['initialValues']);
\* return this.useSlice(allKeys)
useForm(st) ==
  [useSlice(st, ObjectKeys(initialValues)) EXCEPT !.observer.hook = "useForm"]

\* the keys that the component passes to useSlice
SliceKeys == <<"a", "b">>

\* a component that calls useSlice(keys) renders for the first time
Render(keys) ==
  /\ Built
  /\ observer.phase = "none"
  /\ Call(useSlice(Begin("useSlice", <<keys>>), keys))
  /\ UNCHANGED <<validators, installed>>

\* a component that calls useForm() renders for the first time
RenderForm ==
  /\ Built
  /\ observer.phase = "none"
  /\ Call(useForm(Begin("useForm", <<>>)))
  /\ UNCHANGED <<validators, installed>>

\* the component renders again: with the same array of keys or a new one if
\* it calls useSlice, with a new one if it calls useForm
Rerender(newKeys) ==
  /\ observer.phase = "rendered"
  /\ observer.hook = "useForm" => newKeys
  /\ Len(microtasks) < MaxMicrotasks
  /\ Call(useSliceAgain(Begin("rerender", <<newKeys>>), newKeys))
  /\ UNCHANGED <<validators, installed>>

\* handlers.delete(handler) for a handler the observer's effect registered
removeBuiltin(st, event, h) ==
  [st EXCEPT !.eventHandlers[event] = delete(@, Builtin(h))]

\* unsubscribers.forEach((unsubscribe) => unsubscribe())
RECURSIVE unsubscribeEach(_, _)
unsubscribeEach(st, keys) ==
  IF keys = <<>> THEN st
  ELSE unsubscribeEach(unsubscribeField(st, Head(keys), "scheduleUpdate"),
                       Tail(keys))

cleanupFieldsOnly(st) ==
  [unsubscribeEach(st, st.observer.keys) EXCEPT !.observer.mounted = FALSE,
                                                !.observer.tornDown = TRUE]

\* the function the effect returns: React calls it before it runs the
\* effect again and when the component unmounts
cleanup(st) ==
  LET st1 == unsubscribeEach(st, st.observer.keys)
      st2 == removeBuiltin(removeBuiltin(st1, "validationStart",
                                         "onValidationStart"),
                           "validated", "onValidated")
  IN [st2 EXCEPT !.observer.mounted = FALSE, !.observer.tornDown = TRUE]

\* the microtasks that a closure of the effect has queued go on with the
\* flags of that closure
RECURSIVE Outlived(_)
Outlived(ms) ==
  IF ms = <<>> THEN <<>>
  ELSE <<IF "update" \in DOMAIN Head(ms)
           THEN [Head(ms) EXCEPT !.stale = TRUE] ELSE Head(ms)>>
         \o Outlived(Tail(ms))

\* the function passed to useEffect: a closure with its two flags and its
\* scheduleUpdate and scheduleValidationUpdate, which it subscribes to every
\* key and to validationStart and validated.  Each form.on replays the queue
\* of its event to the handlers of the event; when one of them throws, the
\* effect ends there: what it has subscribed stays, and it returns no
\* cleanup (mounted stays false).
effect(st) ==
  LET st1 == [st EXCEPT !.observer.tornDown = FALSE,
                        !.observer.pendingUpdate = FALSE,
                        !.observer.pendingValidationUpdate = FALSE,
                        !.microtasks = Outlived(@)]
      st2 == onBuiltin(onBuiltin(subscribeEach(st1, st1.observer.keys),
                                 "validationStart", "onValidationStart"),
                       "validated", "onValidated")
  IN IF st2.thrown THEN st2 ELSE [st2 EXCEPT !.observer.mounted = TRUE]

\* React runs the effect that a render asked for: after the cleanup of the
\* effect in place, if there is one.  An effect that throws takes the
\* component down: React unmounts it, and there is no cleanup to call.
runEffect(st) ==
  LET st1 == IF st.observer.mounted THEN cleanup(st) ELSE st
      st2 == effect([st1 EXCEPT !.observer.effectPending = FALSE])
  IN IF st2.thrown
       THEN [Log(st2, [t |-> "uncaught", by |-> "effect"]) EXCEPT
               !.observer.phase = "unmounted"]
       ELSE st2

RunEffect ==
  /\ observer.phase = "rendered"
  /\ observer.effectPending
  /\ Call(runEffect(Begin("effect", <<>>)))
  /\ UNCHANGED <<validators, installed>>

\* the component unmounts: React calls the cleanup of the effect in place
\* and runs no effect that is still asked for
unmount(st) ==
  LET st1 == IF st.observer.mounted THEN cleanup(st) ELSE st
  IN [st1 EXCEPT !.observer.phase = "unmounted",
                 !.observer.effectPending = FALSE]

Unmount ==
  /\ observer.phase = "rendered"
  /\ Call(unmount(Begin("unmount", <<>>)))
  /\ UNCHANGED <<validators, installed>>

\* A component that is mounted and unmounted while the host changes and
\* resets fields and asks for validation; the container has one asynchronous
\* validator or none.  Before the component renders the host may emit
\* validationStart with nobody listening and register a handler that throws,
\* so that the effect of the component may throw in its queue replay.
NextTeardown ==
  \/ NewFormBuilder
  \/ Built /\ observer = NoObserver /\ CallEmit("validationStart", <<>>)
  \/ Built /\ observer = NoObserver /\ CallOn("validationStart", "thrower")
  \/ Render(SliceKeys)
  \/ RunEffect
  \/ Unmount
  \/ Built /\ observer # NoObserver /\ HostMayRun /\ CallEmit("change", <<"a", 1>>)
  \/ Built /\ observer # NoObserver /\ HostMayRun /\ CallEmit("reset", <<>>)
  \/ Built /\ observer # NoObserver /\ HostMayRun /\ CallEmit("validate", <<>>)
  \/ Built /\ observer = NoObserver /\ validators = <<>>
       /\ CallRegisterValidator(Validator(TRUE, 1, "req", "b", "m1"))
  \/ EndTurn
  \/ RunMicrotask
  \/ \E r \in 1..MaxRuns, i \in 1..MaxValidators: ~turnOpen /\ ResolveAsync(r, i)

SpecTeardown == Init /\ [][NextTeardown]_vars

ObserverValidators ==
  { Validator(FALSE, 1, "req", "a", "m1"), Validator(TRUE, 1, "req", "b", "m1") }

ObserverEvents == {"change", "changeSome", "reset"}

ObserverArgs(event) ==
  CASE event = "change" -> {<<"a", 1>>, <<"b", 1>>}
    [] event = "changeSome" -> {<< << <<"b", 1>>, <<"a", 1>> >> >>}
    [] OTHER -> {<<>>}

\* A built container with one mounted component, the host's changes of the
\* fields, and the event loop.
NextObserver ==
  \/ NewFormBuilder
  \/ Render(SliceKeys)
  \/ RenderForm
  \/ \E newKeys \in BOOLEAN: Rerender(newKeys)
  \/ RunEffect
  \/ \E e \in ObserverEvents: \E args \in ObserverArgs(e):
       Built /\ HostMayRun /\ CallEmit(e, args)
  \/ \E k \in Keys: Built /\ HostMayRun /\ CallSetError(k, "m1")
  \/ EndTurn
  \/ RunMicrotask

SpecObserver == Init /\ [][NextObserver]_vars

\* A component while validation runs come and go, on a container with one
\* validator or none: the host emits now or from a microtask, and the
\* promise of the validator settles at any time after it was returned.
NextObserverVal ==
  \/ NewFormBuilder
  \/ Render(SliceKeys)
  \/ RunEffect
  \/ Built /\ HostMayRun /\ CallEmit("validate", <<>>)
  \/ \E e \in {"change", "validate"}:
       Built /\ CallQueueMicrotask(e, IF e = "change" THEN <<"a", 1>> ELSE <<>>)
  \/ \E v \in ObserverValidators:
       Built /\ observer = NoObserver /\ validators = <<>>
         /\ CallRegisterValidator(v)
  \/ EndTurn
  \/ RunMicrotask
  \/ \E r \in 1..MaxRuns, i \in 1..MaxValidators: ResolveAsync(r, i)

SpecObserverVal == Init /\ [][NextObserverVal]_vars

\* Field subscriptions that come and go around 'change' events.  The host
\* emits once the builder has applied changeHandlers, as FormBuilder's
\* constructor does before it hands the container out.
NextFrame ==
  \/ \E k \in Keys, s \in FrameCallbacks: CallSubscribeFieldKeep(k, s)
  \/ \E u \in fieldUnsubscribers: CallUnsubscribeField(u)
  \/ \E k \in Keys: CallSetError(k, "m1")
  \/ \E args \in ArgsOf("change"):
       "changeHandlers" \in installed /\ CallEmit("change", args)
  \/ UseChangeHandlers

SpecFrame == Init /\ [][NextFrame]_vars

\* Deferred emits next to microtasks: the host subscribes, emits now, emits
\* later and queues microtasks that emit; the event loop runs the microtasks
\* when the synchronous code has returned, and then the timers.
DeferArgs == {<<"a", 0>>, <<"a", 1>>}

NextDefer ==
  \/ CallOn("change", "h1")
  \/ \E args \in DeferArgs: CallEmit("change", args)
  \/ \E args \in DeferArgs: CallEmitLater("change", args)
  \/ \E args \in DeferArgs: CallQueueMicrotask("change", args)
  \/ UseChangeHandlers
  \/ EndTurn
  \/ RunMicrotask
  \/ TimerFire

SpecDefer == Init /\ [][NextDefer]_vars

\* The event hub with handlers that call back into it: they emit the event
\* again, subscribe a handler or unsubscribe one while an emit or a queue
\* replay is delivering to them; the host also unsubscribes between calls.
ReentEvents == {"validationStart"}

NextReent ==
  \/ \E e \in ReentEvents, h \in UserHandlers: CallOnKeep(e, h)
  \/ \E e \in ReentEvents, h \in ReentrantHandlers: CallOn(e, h)
  \/ \E e \in ReentEvents, h \in {"h1"} \cup ReentrantHandlers: CallOnce(e, h)
  \/ \E e \in ReentEvents: \E args \in ArgsOf(e): CallEmit(e, args)
  \/ \E u \in unsubscribers: CallUnsubscribe(u)

SpecReent == Init /\ [][NextReent]_vars

\* Payloads of 'change' queued while nobody listens, and then a handler
\* that emits again what it is given first.
NextDrain ==
  \/ \E h \in {"h1", "again"}: CallOn("change", h)
  \/ \E h \in {"h1", "again"}: CallOnce("change", h)
  \/ \E args \in ArgsOf("change"): CallEmit("change", args)
  \/ \E u \in unsubscribers: CallUnsubscribe(u)
  \/ CallOnKeep("change", "h2")

SpecDrain == Init /\ [][NextDrain]_vars

ThrowHandlers == {"h1", "thrower"}

\* Handlers of 'change' of which one throws, before or after the handler
\* that changeHandlers wires.
NextThrow ==
  \/ \E h \in ThrowHandlers: CallOnKeep("change", h)
  \/ \E u \in unsubscribers: CallUnsubscribe(u)
  \/ \E h \in ThrowHandlers: CallOnce("change", h)
  \/ \E args \in ArgsOf("change"): CallEmit("change", args)
  \/ UseChangeHandlers
  \/ \E k \in Keys, s \in FieldCallbacks: CallSubscribeField(k, s)

SpecThrow == Init /\ [][NextThrow]_vars

----------------------------------------------------------------------------
(* Properties *)

\* the argument tuples with which handler h was called for event e in a step
CallsTo(tr, h, e) ==
  LET picked == SelectSeq(tr, LAMBDA x: x.t = "call" /\ x.h = h /\ x.e = e)
  IN [i \in 1..Len(picked) |-> picked[i].args]

Notified(tr) == SelectSeq(tr, LAMBDA x: x.t = "notify")

\* C1: when on(event, h) registers the first handler of an event whose queue
\* holds payloads emitted while no handler was registered, that very call
\* delivers every queued payload to h, in emission order, once each, and
\* leaves the queue empty.
C1_QueueReplayedInOrder ==
  [][\A e \in HubEvents, h \in UserHandlers:
       (IsOp(trace', "on", <<e, h>>) /\ Size(eventHandlers[e]) = 0)
         => /\ CallsTo(trace', h, e) = eventQueue[e]
            /\ eventQueue'[e] = <<>>]_vars

\* on() has just replayed two different queued payloads to h1
C1_Witness ==
  /\ IsOp(trace, "on", <<"change", "h1">>)
  /\ Len(CallsTo(trace, "h1", "change")) = 2
  /\ CallsTo(trace, "h1", "change")[1] # CallsTo(trace, "h1", "change")[2]

\* the step tr is setValue(k, v), called directly or through the built-in
\* handler of 'change' that changeHandlers wired before the step
SetsValue(tr, wired, k, v) ==
  \/ IsOp(tr, "setValue", <<k, v>>)
  \/ /\ IsOp(tr, "emit", <<"change", <<k, v>>>>)
     /\ "changeHandlers" \in wired

\* C2, as stated: after setValue(key, v) or emit('change', key, v) the field
\* has error null and isTouched true, whatever its state was before.
C2_AlwaysClearedAndTouched ==
  \A k \in Keys, v \in Vals:
    SetsValue(trace, installed, k, v)
      => fields[k].error = Null /\ fields[k].isTouched

\* C2, amended: after setValue(key, v) or emit('change', key, v) with v
\* different from the field's value, the field holds v, has error null and
\* isTouched true, whatever its error and isTouched were before.
C2_ChangedValueClearsAndTouches ==
  [][\A k \in Keys, v \in Vals:
       (SetsValue(trace', installed, k, v) /\ fields[k].value # v)
         => fields'[k] = [value |-> v, error |-> Null, isTouched |-> TRUE]]_vars

\* a 'change' event has just set field a to 1 and its subscriber saw the
\* field with error null and isTouched true
C2_Witness ==
  /\ IsOp(trace, "emit", <<"change", <<"a", 1>>>>)
  /\ Len(Notified(trace)) = 1
  /\ Notified(trace)[1].field = [value |-> 1, error |-> Null, isTouched |-> TRUE]
  /\ fields["a"] = [value |-> 1, error |-> Null, isTouched |-> TRUE]

\* C3: setValue with the value the field already has changes no field and
\* notifies no field subscriber, however often it is repeated.
C3_UnchangedValueIsNoOp ==
  [][\A k \in Keys, v \in Vals:
       (SetsValue(trace', installed, k, v) /\ fields[k].value = v)
         => fields' = fields /\ Notified(trace') = <<>>]_vars

\* setValue(a, 1) has just returned without notifying the subscriber of a,
\* on a field that holds 1 and an error
C3_Witness ==
  /\ IsOp(trace, "setValue", <<"a", 1>>)
  /\ Notified(trace) = <<>>
  /\ fieldSubscribers["a"] # <<>>
  /\ fields["a"].value = 1
  /\ fields["a"].error # Null

\* runs of runValidation, numbered in the order in which they started
Runs == 1..Len(runlog)
Awaiting(r) == \E j \in 1..Len(runs): runs[j].id = r
Concluded(r) == runlog[r].dones > 0

\* the continuation of run r is waiting in the microtask queue
ResumeQueued(r) == \E i \in 1..Len(microtasks): microtasks[i] = [resume |-> r]

\* the step is the continuation of run r after its await
ResumeStep(tr, r) == IsOp(tr, "microtask", <<"resume", r>>)
AllResults(r) == [i \in 1..Len(runlog[r].calls) |-> runlog[r].calls[i].res]

\* C4: every run emits validationStart exactly once; a run that still awaits
\* an asynchronous result or the reaction to one, or whose continuation has
\* not run yet, has emitted no `validated`; every other run has emitted
\* `validated` exactly once, after its validationStart.
C4_OneStartOneValidatedPerRun ==
  \A r \in Runs:
    /\ runlog[r].starts = 1
    /\ IF Awaiting(r)
         THEN /\ runlog[r].dones = 0
              /\ \E j \in 1..Len(runs):
                   /\ runs[j].id = r
                   /\ \/ \E i \in 1..Len(runs[j].promises):
                            ~runs[j].promises[i].reacted
                      \/ ResumeQueued(r)
         ELSE runlog[r].dones = 1 /\ runlog[r].startsBefore = 1

\* two overlapping runs: the second has concluded with errors, the first
\* still awaits
C4_Witness ==
  /\ Len(runlog) = 2
  /\ Awaiting(1)
  /\ runlog[2].dones = 1
  /\ runlog[2].errors # NullResult

\* the merged results of the synchronous one-parameter validators of a run
SyncPureErrors(calls) ==
  LET picked == SelectSeq(calls, LAMBDA c: c.v.arity = 1 /\ ~c.v.async)
  IN mergeResults(EmptyErrors, [i \in 1..Len(picked) |-> picked[i].res])

\* C5: a validator declared with two parameters is called with, as second
\* argument, the merged errors of the synchronous pure validators of the run.
C5_SecondArgumentIsSyncErrors ==
  \A r \in Runs: \A i \in 1..Len(runlog[r].calls):
    runlog[r].calls[i].v.arity = 2
      => runlog[r].calls[i].second = SyncPureErrors(runlog[r].calls)

\* C6: `validated` is emitted only once every asynchronous result of the run
\* has resolved, and its mapping includes those results, also when
\* synchronous validators reported errors.
C6_ValidatedAfterAllAsyncResults ==
  \A r \in Runs: Concluded(r) =>
    /\ runlog[r].pendingAtEmit = 0
    /\ \A i \in 1..Len(runlog[r].calls):
         LET c == runlog[r].calls[i]
         IN (c.v.async /\ c.res # NullResult)
              => /\ runlog[r].errors # NullResult
                 /\ DOMAIN c.res.m \subseteq DOMAIN runlog[r].errors.m

Reporters(r, k) ==
  {i \in 1..Len(runlog[r].calls):
     /\ runlog[r].calls[i].res # NullResult
     /\ k \in DOMAIN runlog[r].calls[i].res.m}

Last(S) == CHOOSE i \in S: \A j \in S: j <= i

\* C7: for a key that several validators of a run report, the final mapping
\* holds the message of the one registered last, synchronous or not.
C7_LastRegisteredWins ==
  \A r \in Runs: \A k \in Keys:
    (Concluded(r) /\ Reporters(r, k) # {})
      => /\ runlog[r].errors # NullResult
         /\ k \in DOMAIN runlog[r].errors.m
         /\ runlog[r].errors.m[k] = runlog[r].calls[Last(Reporters(r, k))].res.m[k]

\* the validators of run r are two asynchronous ones that resolve errors for
\* two different keys
TwoAsyncTwoKeys(r) ==
  LET calls == runlog[r].calls
  IN /\ Len(calls) = 2
     /\ \A i \in 1..2: calls[i].v.async /\ calls[i].res # NullResult
     /\ DOMAIN calls[1].res.m # {}
     /\ DOMAIN calls[2].res.m # {}
     /\ DOMAIN calls[1].res.m \cap DOMAIN calls[2].res.m = {}

\* C8: with two asynchronous validators that resolve errors for two
\* different keys, the mapping of `validated` holds both entries, whichever
\* resolved first.
C8_BothAsyncErrorsMerged ==
  \A r \in Runs:
    (Concluded(r) /\ TwoAsyncTwoKeys(r))
      => runlog[r].errors =
           Mapping(ObjectAssign(runlog[r].calls[1].res.m, runlog[r].calls[2].res.m))

\* both results have arrived and the run has just concluded with both
\* entries
C8_Witness ==
  /\ ResumeStep(trace, 1)
  /\ Concluded(1)
  /\ TwoAsyncTwoKeys(1)
  /\ DOMAIN runlog[1].errors.m = {"a", "b"}

ValidatedEmits(tr) == SelectSeq(tr, LAMBDA x: x.t = "emit" /\ x.e = "validated")

\* C9: the errors argument of `validated` is never an empty mapping; it is
\* null exactly when the merged results of the run's validators have no key.
C9_NullIffNoErrors ==
  /\ \A r \in Runs: Concluded(r) =>
       /\ runlog[r].errors # Mapping(EmptyErrors)
       /\ runlog[r].errors = NullResult
            <=> DOMAIN mergeResults(EmptyErrors, AllResults(r)) = {}
  /\ \A i \in 1..Len(ValidatedEmits(trace)):
       ValidatedEmits(trace)[i].args[2] # Mapping(EmptyErrors)

\* a run whose validators returned an empty mapping and null has concluded
\* with null
C9_Witness ==
  /\ Len(runlog) = 1
  /\ Concluded(1)
  /\ Len(runlog[1].calls) = 2
  /\ runlog[1].calls[1].res = Mapping(EmptyErrors)
  /\ runlog[1].calls[2].res = NullResult
  /\ runlog[1].errors = NullResult
  /\ ValidatedEmits(trace) # <<>>

\* C10: when once('validated', h) follows emitLater('validate') in one
\* synchronous turn, the deferred request is still waiting in the timer queue
\* when the registration returns, and h is eventually invoked.
C10_DeferredValidateServesLateOnce ==
  /\ [](LateOnceStep(trace, deferred)
          => \E i \in 1..Len(timers): timers[i].event = "validate")
  /\ [](lateOnce = "armed" => <>(lateOnce = "served"))

\* the late handler has just been invoked with the outcome of a run that had
\* to await an asynchronous validator
C10_Witness ==
  /\ lateOnce = "served"
  /\ \E r \in Runs: ResumeStep(trace, r)
  /\ WatchedCalled(trace)

\* the registrations of handler function h for event e: those in the handler
\* set before a step, and the one that the step itself makes by on or once
RegsBefore(e, h) == SelectSeq(eventHandlers[e], LAMBDA x: x.h = h)

RegsByStep(tr, e, h) ==
  IF IsOp(tr, "once", <<e, h>>) THEN <<OnceEntry(h)>>
  ELSE IF IsOp(tr, "on", <<e, h>>) THEN <<OnEntry(h)>>
  ELSE <<>>

\* C11: a handler whose only registration for an event is one made by once
\* is invoked at most once by a call, nested emits of the event included, and
\* its registration is gone from the handler set once it has been invoked.
C11_OnceInvokedAtMostOnce ==
  [][\A e \in ReentEvents, h \in {"h1", "again"}:
       (RegsBefore(e, h) \o RegsByStep(trace', e, h) = <<OnceEntry(h)>>)
         => /\ Len(CallsTo(trace', h, e)) <= 1
            /\ Len(CallsTo(trace', h, e)) = 1
                 => \A i \in 1..Len(eventHandlers'[e]): eventHandlers'[e][i].h # h]_vars

\* C12: once(event, h) called while two or more payloads are queued for the
\* event invokes h with the first queued payload and with nothing else; h has
\* left the handler set when the call returns and the later payloads are
\* still queued, unprocessed, for the next handler to be registered.
C12_OnceTakesFirstQueuedOnly ==
  [][\A e \in HubEvents, h \in UserHandlers:
       (IsOp(trace', "once", <<e, h>>) /\ Len(eventQueue[e]) >= 2)
         => /\ CallsTo(trace', h, e) = <<Head(eventQueue[e])>>
            /\ \A i \in 1..Len(eventHandlers'[e]): eventHandlers'[e][i].h # h
            /\ eventQueue'[e] = Tail(eventQueue[e])]_vars

\* once() has just served h1 the first of two different queued payloads and
\* the second is still queued
C12_Witness ==
  /\ IsOp(trace, "once", <<"change", "h1">>)
  /\ Len(CallsTo(trace, "h1", "change")) = 1
  /\ Len(eventQueue["change"]) = 1
  /\ eventQueue["change"][1] # CallsTo(trace, "h1", "change")[1]
  /\ eventHandlers["change"] = <<>>

\* the step registers, by on or by once, the first handler of event e while
\* payloads are queued for e
FirstRegistration(tr, e, h) ==
  /\ IsOp(tr, "on", <<e, h>>) \/ IsOp(tr, "once", <<e, h>>)
  /\ Size(eventHandlers[e]) = 0
  /\ eventQueue[e] # <<>>

\* C13, as stated: when on() or once() registers the first handler of an
\* event with queued payloads, no payload remains queued for the event when
\* the call returns.
C13_QueueEmptyAfterFirstRegistration ==
  [][\A e \in HubEvents, h \in UserHandlers:
       FirstRegistration(trace', e, h) => eventQueue'[e] = <<>>]_vars

\* C13, amended: the replay goes on while a handler is registered.  After
\* on() no payload remains queued; once()'s handler leaves the set after the
\* first payload, which ends the replay, and every later payload remains
\* queued, in order, when the call returns.
C13_QueueDrainedWhileHandlersRemain ==
  [][\A e \in HubEvents, h \in UserHandlers:
       FirstRegistration(trace', e, h)
         => /\ IsOp(trace', "on", <<e, h>>) => eventQueue'[e] = <<>>
            /\ IsOp(trace', "once", <<e, h>>)
                 => /\ eventQueue'[e] = Tail(eventQueue[e])
                    /\ Size(eventHandlers'[e]) = 0]_vars

\* once() has just returned with a payload still queued and no handler left
C13_Witness ==
  /\ IsOp(trace, "once", <<"validationStart", "h2">>)
  /\ Len(CallsTo(trace, "h2", "validationStart")) = 1
  /\ eventQueue["validationStart"] # <<>>
  /\ Size(eventHandlers["validationStart"]) = 0

\* the step is an emit of event e, whatever its arguments
EmitOf(tr, e) == tr # <<>> /\ tr[1].name = "emit" /\ tr[1].args[1] = e

\* C14: after every operation the queue of an event holds payloads only if
\* no handler is registered for the event, and an emit of an event that has
\* a handler leaves the queue of the event as it was.
C14_QueuedOnlyWithoutHandlers ==
  /\ [](\A e \in Events: eventQueue[e] # <<>> => Size(eventHandlers[e]) = 0)
  /\ [][\A e \in Events:
          (EmitOf(trace', e) /\ Size(eventHandlers[e]) > 0)
            => eventQueue'[e] = eventQueue[e]]_vars

\* the handler calls of a step, in the order in which they were made
Calls(tr) == SelectSeq(tr, LAMBDA x: x.t = "call")

\* C15: an emit of an event that has handlers calls, before it returns, each
\* registered handler once, in registration order, with the emitted
\* arguments, and leaves the queue of the event as it was.
C15_EmitCallsEachHandlerInOrder ==
  [][\A e \in HubEvents: \A args \in ArgsOf(e):
       (IsOp(trace', "emit", <<e, args>>) /\ Size(eventHandlers[e]) > 0)
         => /\ Calls(trace') =
                 [i \in 1..Len(eventHandlers[e]) |->
                    [t |-> "call", h |-> eventHandlers[e][i].h, e |-> e,
                     args |-> args]]
            /\ eventQueue'[e] = eventQueue[e]]_vars

\* emit('change', a, 1) has just called h2 and then h1, registered in that
\* order, and queued nothing
C15_Witness ==
  /\ IsOp(trace, "emit", <<"change", <<"a", 1>>>>)
  /\ Len(Calls(trace)) = 2
  /\ Calls(trace)[1].h = "h2" /\ Calls(trace)[1].args = <<"a", 1>>
  /\ Calls(trace)[2].h = "h1" /\ Calls(trace)[2].args = <<"a", 1>>
  /\ eventQueue["change"] = <<>>

\* C16: an emit delivers to the handlers that were registered when it began,
\* once per registration, whatever the handlers subscribe or unsubscribe
\* while it is in progress: none of them is skipped or called twice, and a
\* handler subscribed during the emit is not called for it.  (No handler
\* emits the event again here, so that every call belongs to the one emit.)
C16_DeliverySetFixedAtEmit ==
  [][\A e \in ReentEvents:
       ( /\ IsOp(trace', "emit", <<e, <<>>>>)
         /\ Size(eventHandlers[e]) > 0
         /\ RegsBefore(e, "again") = <<>> \/ "again" \in spent )
         => \A h \in UserHandlers \cup ReentrantHandlers:
              Len(CallsTo(trace', h, e)) = Len(RegsBefore(e, h))]_vars

\* an unsubscribe function of on(e, h) has been called and h has no
\* registration for e
Unsubscribed(e, h) ==
  /\ Unsubscriber(e, h, TRUE) \in unsubscribers
  /\ RegsBefore(e, h) = <<>>

\* only handlers that do not call back into the container are registered
PlainHandlers(e) ==
  \A i \in 1..Len(eventHandlers[e]): eventHandlers[e][i].h \in UserHandlers

\* C17: calling the unsubscribe function of on(event, h) takes h's
\* registration out of the handler set and leaves every other registration
\* in place; an emit of the event then does not call h and calls every other
\* registered handler.
C17_UnsubscribedHandlerNotCalled ==
  [][\A e \in ReentEvents, h \in UserHandlers:
       /\ (\E c \in BOOLEAN: IsOp(trace', "unsubscribe", <<e, h, c>>))
            => eventHandlers'[e] =
                 SelectSeq(eventHandlers[e], LAMBDA x: x # OnEntry(h))
       /\ ( /\ IsOp(trace', "emit", <<e, <<>>>>)
            /\ Unsubscribed(e, h)
            /\ PlainHandlers(e) )
            => /\ CallsTo(trace', h, e) = <<>>
               /\ \A g \in UserHandlers \ {h}:
                    Len(CallsTo(trace', g, e)) = Len(RegsBefore(e, g))]_vars

\* an emit has just called h2 and not h1, which had been subscribed with on
\* and then unsubscribed
C17_Witness ==
  /\ IsOp(trace, "emit", <<"validationStart", <<>>>>)
  /\ Unsubscriber("validationStart", "h1", TRUE) \in unsubscribers
  /\ CallsTo(trace, "h1", "validationStart") = <<>>
  /\ Len(CallsTo(trace, "h2", "validationStart")) = 1
  /\ eventHandlers["validationStart"] = <<OnEntry("h2")>>

\* C18: an unsubscribe function that has been called before leaves the
\* handler set unchanged when it is called again, whatever happened in
\* between, a new on() of the same handler function included.
C18_UnsubscribeIdempotent ==
  [][\A e \in ReentEvents, h \in UserHandlers:
       IsOp(trace', "unsubscribe", <<e, h, TRUE>>)
         => eventHandlers'[e] = eventHandlers[e]]_vars

\* C19: emitLater returns having called no handler and changed nothing but
\* the list of scheduled timers, which gains the event and its arguments; the
\* emit runs in a step of its own, when the synchronous code has returned and
\* no microtask is waiting.
C19_EmitLaterDefersToOwnTask ==
  [][/\ \A args \in DeferArgs:
          IsOp(trace', "emitLater", <<"change", args>>)
            => /\ Len(trace') = 1
               /\ timers' = Append(timers, [event |-> "change", args |-> args])
               /\ UNCHANGED <<fields, fieldSubscribers, eventHandlers, eventQueue,
                              isValidating, microtasks, validators, runs>>
     /\ IsOp(trace', "timer", <<"change">>)
          => /\ ~turnOpen
             /\ microtasks = <<>>
             /\ timers # <<>>
             /\ trace'[2] = [t |-> "emit", e |-> "change", args |-> Head(timers).args]
             /\ timers' = Tail(timers)]_vars

\* emitLater('change', a, 1) has just returned on a container wired by
\* changeHandlers and with a subscriber of 'change': field a still holds 0,
\* no handler was called, and a microtask queued earlier is still waiting
C19_Witness ==
  /\ IsOp(trace, "emitLater", <<"change", <<"a", 1>>>>)
  /\ Len(trace) = 1
  /\ "changeHandlers" \in installed
  /\ \E i \in 1..Len(eventHandlers["change"]): eventHandlers["change"][i] = OnEntry("h1")
  /\ fields["a"].value = 0
  /\ microtasks # <<>>
  /\ timers = <<[event |-> "change", args |-> <<"a", 1>>]>>

\* C20: on a container wired by changeHandlers, emit('change', k, v) with v
\* different from the value of k sets field k to value v, error null and
\* isTouched true, and leaves every other field as it was; it notifies the
\* callbacks subscribed to k at that time, each once with the new field, in
\* subscription order, and no other callback: none subscribed to another key
\* only, none that was unsubscribed from k.
C20_ChangeTouchesOneFieldOnly ==
  [][\A k \in Keys, v \in Vals:
       ( /\ IsOp(trace', "emit", <<"change", <<k, v>>>>)
         /\ "changeHandlers" \in installed
         /\ fields[k].value # v )
         => /\ fields' = [fields EXCEPT
                            ![k] = [value |-> v, error |-> Null, isTouched |-> TRUE]]
            /\ Notified(trace') =
                 [i \in 1..Len(fieldSubscribers[k]) |->
                    [t |-> "notify", s |-> fieldSubscribers[k][i].h, k |-> k,
                     field |-> fields'[k]]]
            /\ \A u \in fieldUnsubscribers:
                 (u.key = k /\ u.called
                    /\ \A i \in 1..Len(fieldSubscribers[k]):
                         fieldSubscribers[k][i].h # u.s)
                   => \A i \in 1..Len(Notified(trace')): Notified(trace')[i].s # u.s]_vars

\* emit('change', a, 1) has just notified s2 alone: s1 was unsubscribed from
\* a and is still subscribed to b, whose error is still there
C20_Witness ==
  /\ IsOp(trace, "emit", <<"change", <<"a", 1>>>>)
  /\ Len(Notified(trace)) = 1
  /\ Notified(trace)[1].s = "s2"
  /\ Notified(trace)[1].field = [value |-> 1, error |-> Null, isTouched |-> TRUE]
  /\ FieldUnsubscriber("a", "s1", TRUE) \in fieldUnsubscribers
  /\ fieldSubscribers["b"] = <<OnEntry("s1")>>
  /\ fields["b"] = [value |-> 0, error |-> "m1", isTouched |-> FALSE]

\* the step is setErrors(p), called directly or through the handler that
\* errorHandlers wired for 'errors'
SetsErrors(tr, p) ==
  IsOp(tr, "setErrors", <<p>>) \/ IsOp(tr, "emit", <<"errors", <<p>>>>)

\* C21: after setErrors(partial) or emit('errors', partial) the error of
\* every field equals partial[key] if partial has the key and is null if it
\* has not, whatever the error was before.
C21_SetErrorsReplacesAll ==
  [][\A p \in Partials:
       SetsErrors(trace', p)
         => \A k \in Keys:
              fields'[k].error = IF k \in DOMAIN p THEN p[k] ELSE Null]_vars

\* C22: after reset(snapshot), called directly or through the 'reset' event,
\* from any state, every field has the value of the snapshot, error null and
\* isTouched false, also a field whose value the reset does not change.
C22_ResetClearsEveryField ==
  [][\A v \in Snapshots:
       ( \/ IsOp(trace', "reset", <<v>>)
         \/ Built /\ IsOp(trace', "emit", <<"reset", <<v>>>>) )
         => \A k \in Keys:
              fields'[k] = [value |-> Get(v, k), error |-> Null,
                            isTouched |-> FALSE]]_vars

\* reset({b: 0, a: 1}) has just run and told the subscriber of b, whose value
\* is the one it had at construction, that the field is untouched and clean
C22_Witness ==
  /\ IsOp(trace, "reset", << << <<"b", 0>>, <<"a", 1>> >> >>)
  /\ fields["a"] = [value |-> 1, error |-> Null, isTouched |-> FALSE]
  /\ \E i \in 1..Len(Notified(trace)):
       /\ Notified(trace)[i].k = "b"
       /\ Notified(trace)[i].field = [value |-> 0, error |-> Null, isTouched |-> FALSE]

\* C23: on a built container emit('reset') without a snapshot, after any
\* sequence of operations (an earlier reset to another snapshot included),
\* gives every field its construction-time value, error null and isTouched
\* false.
C23_ResetWithoutSnapshotRestoresInitial ==
  [][(Built /\ IsOp(trace', "emit", <<"reset", <<>>>>))
       => fields' = [k \in Keys |->
                       [value |-> Get(initialValues, k), error |-> Null,
                        isTouched |-> FALSE]]]_vars

\* emit('reset') has just run, the subscriber of a was told the initial value
C23_Witness ==
  /\ Built
  /\ IsOp(trace, "emit", <<"reset", <<>>>>)
  /\ \E i \in 1..Len(Notified(trace)):
       /\ Notified(trace)[i].k = "a"
       /\ Notified(trace)[i].field =
            [value |-> Get(initialValues, "a"), error |-> Null,
             isTouched |-> FALSE]
  /\ fields = valuesToFields(initialValues)

\* C24: after any sequence of request events on a built container (change,
\* changeMany, touch, touchMany, errors, reset with or without a snapshot,
\* validate) the set of field keys is the key set of the construction-time
\* record.
C24_KeySetFixed ==
  DOMAIN fields = {initialValues[i][1] : i \in 1..Len(initialValues)}

\* a change of a key the record does not have has just been emitted, after a
\* validation run and with a field already changed
C24_Witness ==
  /\ Built
  /\ IsOp(trace, "emit", <<"change", <<"c", 1>>>>)
  /\ runlog # <<>>
  /\ fields["a"].value # Get(initialValues, "a")
  /\ DOMAIN fields = {"a", "b"}

\* the notifications of one step that are about key k
NotifiedOf(tr, k) == SelectSeq(tr, LAMBDA x: x.t = "notify" /\ x.k = k)

\* the step touches the keys of names: touch(k), emit('touch', k), or the
\* list event wired by changeHandlers
Touches(tr, names) ==
  \/ Len(names) = 1 /\ IsOp(tr, "touch", names)
  \/ Len(names) = 1 /\ Built /\ IsOp(tr, "emit", <<"touch", names>>)
  \/ Built /\ IsOp(tr, "emit", <<"touchSome", <<names>>>>)
  \/ Built /\ IsOp(tr, "emit", <<"touchMany", <<names>>>>)
       /\ \A k \in Named(names): fields[k].isTouched

\* C25: touch is idempotent. The first touch of a field sets isTouched to
\* true, leaves its value and error and every other field as they were, and
\* notifies each subscriber of that key once with the touched field; touching
\* a field that is already touched, singly or in a list, changes nothing and
\* notifies nobody, also when the list names the field twice.
C25_TouchIdempotent ==
  [][\A names \in {<<k>>: k \in Keys} \cup SomeNames \cup ManyNames:
       Touches(trace', names)
         => /\ fields' = [k \in Keys |->
                            IF k \in Named(names)
                              THEN [fields[k] EXCEPT !.isTouched = TRUE]
                              ELSE fields[k]]
            /\ \A k \in Keys:
                 NotifiedOf(trace', k) =
                   IF k \in Named(names) /\ ~fields[k].isTouched
                     THEN [i \in 1..Len(fieldSubscribers[k]) |->
                             [t |-> "notify", s |-> fieldSubscribers[k][i].h,
                              k |-> k, field |-> fields'[k]]]
                     ELSE <<>>]_vars

\* a list that names a twice has just been touched: the subscriber of a was
\* told once, and a keeps the error it had
C25_Witness ==
  /\ Built
  /\ IsOp(trace, "emit", <<"touchSome", <<<<"a", "a">>>>>>)
  /\ Len(Notified(trace)) = 1
  /\ Notified(trace)[1].field = [value |-> 1, error |-> "m1", isTouched |-> TRUE]
  /\ fields["a"] = [value |-> 1, error |-> "m1", isTouched |-> TRUE]

\* C26: setError(key, m) with m equal to the error the field has changes
\* nothing and notifies nobody; with another m it sets that field's error to
\* m, leaves its value and isTouched and every other field as they were, and
\* notifies each subscriber of that key once, with the field.
C26_SetErrorChangesErrorOnly ==
  [][\A k \in Keys, m \in Msgs \cup {Null}:
       IsOp(trace', "setError", <<k, m>>)
         => IF fields[k].error = m
              THEN fields' = fields /\ Notified(trace') = <<>>
              ELSE /\ fields' = [fields EXCEPT ![k].error = m]
                   /\ Notified(trace') =
                        [i \in 1..Len(fieldSubscribers[k]) |->
                           [t |-> "notify", s |-> fieldSubscribers[k][i].h,
                            k |-> k, field |-> fields'[k]]]]_vars

\* setError(a, m2) has just replaced an error on a changed field and told its
\* subscriber; b keeps its own error
C26_Witness ==
  /\ IsOp(trace, "setError", <<"a", "m2">>)
  /\ fields["a"] = [value |-> 1, error |-> "m2", isTouched |-> TRUE]
  /\ fields["b"] = [value |-> 0, error |-> "m1", isTouched |-> FALSE]
  /\ Len(Notified(trace)) = 1
  /\ Notified(trace)[1].field = fields["a"]

\* C28: on the container a builder hands out every request-type event
\* (change, changeMany, touch, touchMany, reset, errors, validate) has a
\* handler from construction on, so that no emit of one of them is ever
\* queued.
C28_RequestEventsHandled ==
  Built => \A e \in RequestEvents:
             Size(eventHandlers[e]) > 0 /\ eventQueue[e] = <<>>

\* a run that has started and is awaiting its asynchronous validators has
\* not concluded
RunInProgress(rs) == rs # <<>>

\* the handlers of 'validated' called in this step; they only record, so the
\* flag they see is the one the step ends with
ValidatedCalls(tr) ==
  SelectSeq(tr, LAMBDA x: x.t = "call" /\ x.e = "validated")

FlagWhileRunInProgress == RunInProgress(runs') => isValidating'

FlagDownAtValidated ==
  (ValidatedEmits(trace') # <<>> /\ ValidatedCalls(trace') # <<>>) => ~isValidating'

\* C27: isValidating is true from the start of a validation run until that
\* run concludes, and it is false again when the handlers of the run's
\* 'validated' are called.
C27_ValidatingFromStartToConclusion ==
  [][FlagWhileRunInProgress /\ FlagDownAtValidated]_vars

\* the refreshes of the observer's fields that wait in the microtask queue
FieldUpdates(ms) == SelectSeq(ms, LAMBDA m: MicrotaskName(m) = "setFields")

\* the notifications of one step that went to the observer
ObserverNotified(tr) ==
  SelectSeq(tr, LAMBDA x: x.t = "notify" /\ x.s = "scheduleUpdate")

SetFieldsCalls(tr) == SelectSeq(tr, LAMBDA x: x.t = "setFields")

\* C29: for one observer subscribed to several fields, the notifications of
\* one synchronous turn, however many, leave exactly one refresh pending;
\* the refresh runs as one microtask and calls setFields once with the
\* fields as they are when it runs, so that the observer then holds the
\* current state of its fields.
C29_NotificationsCoalesced ==
  [][/\ Len(FieldUpdates(microtasks')) <= 1
     /\ ObserverNotified(trace') # <<>> => Len(FieldUpdates(microtasks')) = 1
     /\ IsOp(trace', "microtask", <<"setFields">>)
          => /\ SetFieldsCalls(trace') =
                  <<[t |-> "setFields", fields |-> [k \in Keys |-> fields'[k]]]>>
             /\ observer'.fields = [k \in Keys |-> fields'[k]]]_vars

\* C30: for a mounted observer, once no validation run is in progress any
\* more and the microtasks are flushed, the observer's isValidating is false
\* and equal to the container's, whether the validators of the runs were
\* synchronous or asynchronous.
C30_ObserverFlagFollowsContainer ==
  ( /\ observer.mounted
    /\ runlog # <<>>
    /\ runs = <<>>
    /\ ~turnOpen
    /\ microtasks = <<>> )
    => /\ observer.isValidating = isValidating
       /\ ~observer.isValidating

\* nothing of the observer is registered with the container
ObserverGone(subs, handlers) ==
  /\ \A k \in Keys: \A i \in 1..Len(subs[k]): subs[k][i] # OnEntry("scheduleUpdate")
  /\ \A e \in {"validationStart", "validated"}:
       \A i \in 1..Len(handlers[e]):
         handlers[e][i] \notin {Builtin("onValidationStart"), Builtin("onValidated")}

ObserverUpdates(ms) == SelectSeq(ms, LAMBDA m: "update" \in DOMAIN m)

Unconcluded(log) == {i \in 1..Len(log): log[i].starts > 0 /\ log[i].dones = 0}

\* C32: whenever at least one validation run has started and has not yet
\* emitted its 'validated', isValidating is true, also when two runs overlap
\* and one of them concludes before the other.
C32_ValidatingWhileAnyRunUnconcluded ==
  Unconcluded(runlog) # {} => isValidating

\* a validation request is outstanding: a run awaits its validators or a
\* deferred 'validate' has not fired yet
RequestOutstanding == runs # <<>> \/ ValidateTimers > 0

\* C33: a handler registered with once('validated', h) after a validation
\* request is not invoked with the outcome of an earlier run: the
\* registration itself, which can only deliver payloads queued before it,
\* does not call h.
C33_OnceNotServedFromQueue ==
  [][(IsOp(trace', "once", <<"validated", Watched>>) /\ RequestOutstanding)
       => CallsTo(trace', Watched, "validated") = <<>>]_vars

\* the values of the fields, read off the state
ValuesOf(fs) == [k \in DOMAIN fs |-> fs[k].value]

\* C34: the values argument of a 'validated' emission is the field values at
\* the moment its run started: a run that concludes in the step that started
\* it reports the values of that moment, a run that awaited asynchronous
\* validators reports the values recorded at its start whatever happened to
\* the fields since, and overlapping runs each report their own.
C34_ValidatedCarriesStartSnapshot ==
  [][/\ IsOp(trace', "emit", <<"validate", <<>>>>)
          => /\ Len(runlog') = Len(runlog) + 1
             /\ runlog'[Len(runlog')].values = ValuesOf(fields)
             /\ \A j \in 1..Len(ValidatedEmits(trace')):
                  ValidatedEmits(trace')[j].args[1] = ValuesOf(fields)
     /\ \A id \in 1..Len(runlog):
          /\ runlog'[id].values = runlog[id].values
          /\ ResumeStep(trace', id)
               => \A j \in 1..Len(ValidatedEmits(trace')):
                    ValidatedEmits(trace')[j].args[1] = runlog[id].values]_vars

\* the second of two overlapping runs has just concluded and reported a = 0,
\* the value at its start; a was changed while it was awaiting, and the first
\* run had started with a = 1
C34_Witness ==
  /\ ResumeStep(trace, 2)
  /\ Len(ValidatedEmits(trace)) = 1
  /\ ValidatedEmits(trace)[1].args[1] = [k \in Keys |-> 0]
  /\ fields["a"].value = 1
  /\ Len(runlog) = 2
  /\ runlog[1].values["a"] = 1

\* a validator call of the run threw, or returned a promise that rejects
Faulted(run) == \E i \in 1..Len(run.calls): run.calls[i].res = Fault

\* C35: a validation run in which a validator throws, or in which the
\* asynchronous result of a validator rejects, emits no 'validated'.
C35_FaultedRunEmitsNoValidated ==
  \A id \in 1..Len(runlog): Faulted(runlog[id]) => runlog[id].dones = 0

\* the positions of the handlers that throw
Throwers(entries) ==
  {i \in 1..Len(entries): entries[i].kind \in {"on", "once"} /\ entries[i].h = "thrower"}

FirstThrower(entries) ==
  CHOOSE i \in Throwers(entries): \A j \in Throwers(entries): i <= j

\* the calls of the host's handlers among entries, in order
CallsOf(entries, event, args) ==
  LET users == UserEntries(entries)
  IN [i \in 1..Len(users) |->
        [t |-> "call", h |-> users[i].h, e |-> event, args |-> args]]

Uncaught(tr) == SelectSeq(tr, LAMBDA x: x.t = "uncaught")

\* C36: when a handler throws during a synchronous emit, the exception
\* leaves emit uncaught, the handlers registered after the throwing one are
\* not invoked for that emission, and what the handlers before it did stays
\* done: here the field change made by the handler that changeHandlers
\* wired. Without a throwing handler every handler is invoked and emit
\* returns normally.
C36_ThrowAbortsEmit ==
  [][\A k \in Keys, v \in Vals:
       LET entries == eventHandlers["change"]
           upto == IF Throwers(entries) = {} THEN entries
                   ELSE SubSeq(entries, 1, FirstThrower(entries))
           changed == \E i \in 1..Len(upto): upto[i] = Builtin("setValue")
       IN (IsOp(trace', "emit", <<"change", <<k, v>>>>) /\ entries # <<>>)
            => /\ Calls(trace') = CallsOf(upto, "change", <<k, v>>)
               /\ fields' = IF changed /\ fields[k].value # v
                              THEN [fields EXCEPT ![k] =
                                      [value |-> v, error |-> Null,
                                       isTouched |-> TRUE]]
                              ELSE fields
               /\ Len(Uncaught(trace')) =
                    (IF Throwers(entries) = {} THEN 0 ELSE 1)]_vars

\* emit('change', a, 1) has just been aborted by the second of three
\* handlers: the first one had set the field, the third one was not called
C36_Witness ==
  /\ IsOp(trace, "emit", <<"change", <<"a", 1>>>>)
  /\ eventHandlers["change"] =
       <<Builtin("setValue"), OnEntry("thrower"), OnEntry("h1")>>
  /\ Calls(trace) = <<[t |-> "call", h |-> "thrower", e |-> "change",
                       args |-> <<"a", 1>>]>>
  /\ Uncaught(trace) # <<>>
  /\ fields["a"] = [value |-> 1, error |-> Null, isTouched |-> TRUE]

\* C37: the payloads of one event name reach a handler in the order in which
\* they were emitted, also when the handler emits that event again while the
\* queue is being drained: the payloads that were queued before the drain
\* began are delivered first, in their order, and the re-entrant one after
\* them.
C37_QueuedBeforeReentrant ==
  [][( /\ IsOp(trace', "on", <<"change", "again">>)
       /\ eventHandlers["change"] = <<>> )
       => /\ Len(CallsTo(trace', "again", "change")) >= Len(eventQueue["change"])
          /\ SubSeq(CallsTo(trace', "again", "change"), 1,
                    Len(eventQueue["change"])) = eventQueue["change"]]_vars

\* what the notified callbacks found in the container, in order of the calls
Seen(tr) == SelectSeq(tr, LAMBDA x: x.t = "seen")

\* the fields after the first n entries of a batch have been applied
AppliedUpTo(fs, batch, n) ==
  [k \in DOMAIN fs |->
     IF \E i \in 1..n: batch[i][1] = k /\ fs[k].value # batch[i][2]
       THEN [value |-> (CHOOSE v \in Vals: \E i \in 1..n: batch[i] = <<k, v>>),
             error |-> Null, isTouched |-> TRUE]
       ELSE fs[k]]

\* what the subscribers must find, entry by entry of the batch
RECURSIVE SeenByBatch(_, _, _, _)
SeenByBatch(fs, subs, batch, i) ==
  IF i > Len(batch) THEN <<>>
  ELSE LET k == batch[i][1]
       IN (IF fs[k].value # batch[i][2]
             THEN [j \in 1..Len(subs[k]) |->
                     [t |-> "seen", s |-> subs[k][j].h, k |-> k,
                      fields |-> AppliedUpTo(fs, batch, i)]]
             ELSE <<>>) \o SeenByBatch(fs, subs, batch, i + 1)

\* C38: setValues(partial), called directly or through the event that
\* changeHandlers wires to it, applies the keys in the mapping's order and
\* notifies after each single mutation: the subscribers of a key whose value
\* changes are notified when that key and the keys before it are updated and
\* the later keys of the batch still hold their old values; a key whose value
\* does not change notifies nobody.
C38_SetValuesNotifiesPerMutation ==
  [][\A batch \in SomeValues:
       ( \/ IsOp(trace', "setValues", <<batch>>)
         \/ Built /\ IsOp(trace', "emit", <<"changeSome", <<batch>>>>) )
         => /\ Seen(trace') = SeenByBatch(fields, fieldSubscribers, batch, 1)
            /\ Len(Notified(trace')) = Len(Seen(trace'))
            /\ fields' = AppliedUpTo(fields, batch, Len(batch))]_vars

\* setValues({b: 1, a: 1}) has just run: the subscriber of b was called while
\* a was still 0, the subscriber of a afterwards
C38_Witness ==
  /\ IsOp(trace, "setValues", << << <<"b", 1>>, <<"a", 1>> >> >>)
  /\ Len(Seen(trace)) = 2
  /\ Seen(trace)[1].k = "b"
  /\ Seen(trace)[1].fields["b"].value = 1
  /\ Seen(trace)[1].fields["a"].value = 0
  /\ Seen(trace)[2].k = "a"
  /\ Seen(trace)[2].fields["a"].value = 1

\* C39: reset(snapshot), called directly or through the 'reset' event,
\* replaces the whole field set first and notifies afterwards: every
\* subscriber of every field is notified exactly once, also for a field whose
\* value did not change, and each of them finds all fields already reset.
C39_ResetReplacesThenNotifies ==
  [][\A v \in Snapshots:
       ( \/ IsOp(trace', "reset", <<v>>)
         \/ Built /\ IsOp(trace', "emit", <<"reset", <<v>>>>) )
         => /\ \A k \in Keys:
                 SelectSeq(Seen(trace'), LAMBDA x: x.k = k) =
                   [j \in 1..Len(fieldSubscribers[k]) |->
                      [t |-> "seen", s |-> fieldSubscribers[k][j].h, k |-> k,
                       fields |-> valuesToFields(v)]]
            /\ Len(Notified(trace')) = Len(Seen(trace'))]_vars

\* reset({a: 1, b: 0}) has just run: the subscriber of a, called first, found
\* b reset already, and the subscriber of b was called although b's value is
\* the one it had
C39_Witness ==
  /\ IsOp(trace, "reset", << << <<"a", 1>>, <<"b", 0>> >> >>)
  /\ Len(Seen(trace)) = 2
  /\ Seen(trace)[1].k = "a"
  /\ Seen(trace)[1].fields["b"] = [value |-> 0, error |-> Null, isTouched |-> FALSE]
  /\ Seen(trace)[2].k = "b"

\* the step is the arrival of a validator's result, the reaction of
\* Promise.all to it, or the continuation of a run after its await
RunStep(tr) ==
  /\ tr # <<>>
  /\ \/ tr[1].name = "resolve"
     \/ tr[1].name = "microtask" /\ tr[1].args[1] \in {"reaction", "resume"}

\* C40: a validation run never modifies the field set: from the validate
\* request to the 'validated' emission no field's value, error or isTouched
\* changes and no field subscriber is notified, whatever errors the run
\* reports; errors reach the fields through the 'errors' event only.
C40_ValidationLeavesFieldsAlone ==
  [][(IsOp(trace', "emit", <<"validate", <<>>>>) \/ RunStep(trace'))
       => fields' = fields /\ Notified(trace') = <<>>]_vars

\* a run has just concluded reporting an error for b to the handler of
\* 'validated'; b has a subscriber, was not notified and has no error
C40_Witness ==
  /\ \E r \in Runs: ResumeStep(trace, r)
  /\ Len(ValidatedEmits(trace)) = 1
  /\ ValidatedEmits(trace)[1].args[2] = Mapping(ErrorsOf("b", "m1"))
  /\ Calls(trace) # <<>>
  /\ fieldSubscribers["b"] # <<>>
  /\ fields["b"].error = Null
  /\ fields["a"].value = 1

====
